---- MODULE Spec2Model ----
(***************************************************************************)
(* Model of the wrath-rs session and tick engine.                          *)
(*                                                                         *)
(*  - auth_server/src/client_manager.rs : the auth ClientManager (SRP6      *)
(*    logon / reconnect state machine, realm list, periodic cleanup) and    *)
(*    auth_server/src/main.rs : the per-connection task that owns the       *)
(*    receiving end of every session's mailbox.                             *)
(*  - world_server/src : the main loop, the ClientManager, the map tick,    *)
(*    the connection tasks and the inventory of a Character, each           *)
(*    introduced where its part of the model begins.                        *)
(*                                                                         *)
(* Every handler is one action.  A handler is written as an operator that   *)
(* threads a record m = [cc, aa, mb, sk, res] through the statements of the *)
(* Rust function: cc = connected_clients, aa = authenticated_addresses,     *)
(* mb = the mailboxes, sk = the persisted session keys, and res is how the  *)
(* function ends: "ok" (Ok(())), "err" (Err(..), by `?` or `return Err`)    *)
(* or "panic" (an unwrap() of None / Err, which aborts the manager task).   *)
(***************************************************************************)
EXTENDS Integers, Sequences, FiniteSets, TLC

VARIABLES
    \* ---- auth server: ClientManager ----
    connected_clients,        \* HashMap<SocketAddr, Client>
    authenticated_addresses,  \* HashMap<String, SocketAddr>
    mailbox,                  \* per connection: the flume channel of ServerEvents
    receiver_alive,           \* per connection: its task still holds the Receiver
    num_connections,          \* connections accepted so far
    connection_addr,          \* per connection: the SocketAddr its task uses
    sessionkey,               \* auth DB: account.session_key
    now,                      \* the monotonic clock read by Instant::now()
    manager,                  \* the ClientManager task: "running" or "panicked"
    \* ---- world server: main loop, ClientManager, CharacterManager, World ----
    clients,                  \* ClientManager.clients: HashMap<SocketAddr, Client>
    characters,               \* CharacterManager.characters: HashMap<Guid, Character>
    world_maps,               \* InstanceManager.world_maps: HashMap<MapID, MapManager>
    outbox,                   \* per connection: the ServerEvents the step just taken sent to it
    conn,                     \* per address: the state of its connection task
    pc,                       \* the position of the main loop inside one engine tick
    tick_queue,               \* tick_maps: the maps the running world tick has yet to tick
    world,                    \* the main task: "running", "stopped" (Err) or "panicked"
    \* ---- world server: the connection tasks ----
    realm_connections,        \* per accepted socket: its Connection and its task
    client_events,            \* the ClientEvent channel of the ClientManager
    \* ---- world server: the inventory of one Character ----
    equipped_items,           \* CharacterInventory.items: HashMap<EquipmentSlot, Item>
    bag_items,                \* BagInventory.items: [Option<Item>; 16]
    player_field_inv          \* the PLAYER_FIELD_INV_SLOT fields of the update mask

auth_vars == <<connected_clients, authenticated_addresses, mailbox, receiver_alive,
               num_connections, connection_addr, sessionkey, now, manager>>

world_vars == <<clients, characters, world_maps, outbox, conn, pc, tick_queue, world>>

conn_vars == <<realm_connections, client_events>>

inventory_vars == <<equipped_items, bag_items, player_field_inv>>

vars == <<connected_clients, authenticated_addresses, mailbox, receiver_alive,
          num_connections, connection_addr, sessionkey, now, manager,
          clients, characters, world_maps, outbox, conn, pc, tick_queue, world,
          realm_connections, client_events,
          equipped_items, bag_items, player_field_inv>>

(***************************************************************************)
(* Bounds of the model.                                                    *)
(***************************************************************************)
MaxConnections == 2
MaxMailbox == 2

(***************************************************************************)
(* Program constants and input domains.                                    *)
(***************************************************************************)
AUTH_RECONNECT_LIFETIME == 500

\* Instants at which the clock is observed (seconds since start).
Instants == {0, 500}

\* Peer addresses carried by ClientEvent::Connection / ClientEvent::Message.
Addrs == {"P1", "P2"}
NoAddr == "none"

ConnIds == 1..MaxConnections

\* Rows of the account table of the auth database (AccountRecord).
Accounts ==
    [u \in {"alice", "bob", "carol", "dave", "erin", "frank"} |->
        CASE u = "alice" -> [banned |-> FALSE, v |-> "hex", s |-> "hex"]
          [] u = "bob"   -> [banned |-> FALSE, v |-> "hex", s |-> "hex"]
          [] u = "carol" -> [banned |-> TRUE,  v |-> "hex", s |-> "hex"]
          [] u = "dave"  -> [banned |-> FALSE, v |-> "",    s |-> "hex"]
          [] u = "erin"  -> [banned |-> TRUE,  v |-> "",    s |-> ""]
          [] u = "frank" -> [banned |-> FALSE, v |-> "nothex", s |-> "hex"]]

\* Account names a client may put in a challenge; "nobody" has no row.
Usernames == DOMAIN Accounts \cup {"nobody"}
NoUser == ""

(***************************************************************************)
(* ClientState, Authentication, Client, ServerEvent.                       *)
(***************************************************************************)
State(tag, username) == [tag |-> tag, username |-> username]
Connected == State("Connected", NoUser)
ChallengeProof(username) == State("ChallengeProof", username)
ReconnectProof(username) == State("ReconnectProof", username)
LogOnProof == State("LogOnProof", NoUser)
NoneState == State("None", NoUser)

NoAuthentication == [srp_server |-> 0, username |-> NoUser]

NewClient(sender, created_at) ==
    [sender |-> sender, created_at |-> created_at, state |-> Connected,
     authentication |-> NoAuthentication]

Event(ev, result) == [ev |-> ev, result |-> result]
Disconnect == Event("Disconnect", "")

(***************************************************************************)
(* HashMap helpers.                                                        *)
(***************************************************************************)
MapInsert(f, k, v) == [x \in DOMAIN f \cup {k} |-> IF x = k THEN v ELSE f[x]]
MapRemove(f, k) == [x \in DOMAIN f \ {k} |-> f[x]]
EmptyMap == [x \in {} |-> 0]

(***************************************************************************)
(* Result records threaded through a handler.                              *)
(***************************************************************************)
Ok(m) == [m EXCEPT !.res = "ok"]
Err(m) == [m EXCEPT !.res = "err"]
Panic(m) == [m EXCEPT !.res = "panic"]

\* flume::Sender::send_async fails exactly when the Receiver was dropped.
SendOk(cid) == receiver_alive[cid]
Enqueue(m, cid, ev) == [m EXCEPT !.mb[cid] = Append(@, ev)]

(***************************************************************************)
(* ClientManager::reject_logon_challenge / reject_logon_proof:             *)
(* connected_clients.get(addr).unwrap(), then send_async(..).await?        *)
(***************************************************************************)
reject_logon_challenge(m, addr, result) ==
    IF addr \notin DOMAIN m.cc THEN Panic(m)
    ELSE IF ~SendOk(m.cc[addr].sender) THEN Err(m)
    ELSE Ok(Enqueue(m, m.cc[addr].sender, Event("AuthLogonChallenge", result)))

reject_logon_proof(m, addr, result) ==
    IF addr \notin DOMAIN m.cc THEN Panic(m)
    ELSE IF ~SendOk(m.cc[addr].sender) THEN Err(m)
    ELSE Ok(Enqueue(m, m.cc[addr].sender, Event("AuthLogonProof", result)))

\* `self.reject_logon_proof(..).await?; return Err(anyhow!(..));`
RejectProofThenErr(m, addr, result) ==
    LET r == reject_logon_proof(m, addr, result)
    IN  IF r.res = "panic" THEN r ELSE Err(r)

(***************************************************************************)
(* ClientManager::handle_auth_logon_challenge.                             *)
(* db_ok: the account query succeeds (get_account_by_username(..).await?). *)
(***************************************************************************)
handle_auth_logon_challenge(m, addr, account_name, db_ok) ==
    IF addr \notin DOMAIN m.cc THEN Panic(m)
    ELSE IF ~db_ok THEN Err(m)
    ELSE
      LET client == m.cc[addr]
          toConnected == [m EXCEPT !.cc[addr].state = Connected]
      IN  IF account_name \in DOMAIN Accounts /\ Accounts[account_name].banned
          THEN reject_logon_challenge(toConnected, addr, "FailBanned")
          ELSE IF account_name \in DOMAIN Accounts
                  /\ (Accounts[account_name].v = "" \/ Accounts[account_name].s = "")
          THEN reject_logon_challenge(toConnected, addr, "FailUnknownAccount")
          ELSE IF account_name \notin DOMAIN Accounts
          THEN reject_logon_challenge(toConnected, addr, "FailUnknownAccount")
          \* hex::decode_to_slice(account.v ..)? / (account.s ..)?
          ELSE IF Accounts[account_name].v # "hex" \/ Accounts[account_name].s # "hex"
          THEN Err(m)
          ELSE IF ~SendOk(client.sender) THEN Err(m)
          ELSE Ok([Enqueue(m, client.sender, Event("AuthLogonChallenge", "Success"))
                     EXCEPT !.cc[addr].state = ChallengeProof(account_name)])

(***************************************************************************)
(* Client::authenticate.                                                   *)
(***************************************************************************)
authenticate(client, srp_server, username) ==
    [client EXCEPT !.authentication = [srp_server |-> srp_server, username |-> username],
                   !.state = LogOnProof]

(***************************************************************************)
(* The tail of handle_auth_logon_proof (lines 325-332): register the       *)
(* username and disconnect the client that held it.                        *)
(***************************************************************************)
DisplaceOther(m, addr, username) ==
    LET old == IF username \in DOMAIN m.aa THEN m.aa[username] ELSE NoAddr
        m1 == [m EXCEPT !.aa = MapInsert(@, username, addr)]
    IN  IF old = NoAddr \/ old \notin DOMAIN m1.cc THEN Ok(m1)
        ELSE LET other_client == m1.cc[old]
                 m2 == [m1 EXCEPT !.cc = MapRemove(@, old)]
             IN  IF ~SendOk(other_client.sender) THEN Err(m2)
                 ELSE Ok(Enqueue(m2, other_client.sender, Disconnect))

\* The session key is not written.
skip_account_sessionkey(m, username, session_key) == m

\* `self.auth_database.set_account_sessionkey(&username, ..).await?` (lines
\* 308-310), the call that succeeds: the key is stored on the account.
set_account_sessionkey(m, username, session_key) ==
    [m EXCEPT !.sk[username] = session_key]

\* A state the let-else of line 294 must refuse.
IsChallengeProofOrConnected(state) == state.tag \in {"ChallengeProof", "Connected"}

\* `let Some(ClientState::ChallengeProof { srp_proof, username }) =
\* client.state.take() else { .. }` (line 294): the pattern matches.
IsChallengeProof(state) == state.tag = "ChallengeProof"

(***************************************************************************)
(* ClientManager::handle_auth_logon_proof.                                 *)
(* key_ok: PublicKey::from_le_bytes succeeds; proof_ok: SrpProof::         *)
(* into_server accepts the client proof; db_ok: set_account_sessionkey     *)
(* succeeds.  The SrpServer is named by the connection that created it.    *)
(***************************************************************************)
handle_auth_logon_proof(m, addr, key_ok, proof_ok, db_ok) ==
    IF ~key_ok THEN RejectProofThenErr(m, addr, "FailIncorrectPassword")
    ELSE IF addr \notin DOMAIN m.cc THEN Panic(m)
    ELSE
      LET st == m.cc[addr].state
          sender == m.cc[addr].sender
          taken == [m EXCEPT !.cc[addr].state = NoneState]   \* client.state.take()
      IN  IF ~IsChallengeProof(st)
          THEN RejectProofThenErr(taken, addr, "FailUnknownAccount")
          ELSE IF ~proof_ok
          THEN RejectProofThenErr(taken, addr, "FailIncorrectPassword")
          ELSE IF ~db_ok THEN Err(taken)
          ELSE
            LET m1 == set_account_sessionkey(taken, st.username, sender)
            IN  IF ~SendOk(sender) THEN Err(m1)
                ELSE
                  LET m2 == Enqueue(m1, sender, Event("AuthLogonProof", "Success"))
                      m3 == [m2 EXCEPT !.cc[addr] = authenticate(@, sender, st.username)]
                  IN  DisplaceOther(m3, addr, st.username)

(***************************************************************************)
(* ClientManager::handle_reconnect_challenge.                              *)
(***************************************************************************)
handle_reconnect_challenge(m, addr, account_name) ==
    LET missing == account_name \notin DOMAIN m.aa
        \* lines 362-375: the failure reply
        afterReply ==
            IF ~missing THEN Ok(m)
            ELSE IF addr \notin DOMAIN m.cc THEN Panic(m)
            ELSE IF ~SendOk(m.cc[addr].sender) THEN Err(m)
            ELSE Ok(Enqueue(m, m.cc[addr].sender,
                            Event("AuthReconnectChallenge", "FailUnknown0")))
    IN  IF afterReply.res # "ok" THEN afterReply
        \* line 377: authenticated_address.unwrap()
        ELSE IF missing THEN Panic(afterReply)
        \* line 378: connected_clients.get(authenticated_address).unwrap()
        ELSE IF m.aa[account_name] \notin DOMAIN m.cc THEN Panic(m)
        \* lines 379-384: authentication.as_ref().unwrap()
        ELSE IF m.cc[m.aa[account_name]].authentication = NoAuthentication THEN Panic(m)
        \* line 397: connected_clients.get_mut(addr).unwrap()
        ELSE IF addr \notin DOMAIN m.cc THEN Panic(m)
        ELSE IF ~SendOk(m.cc[addr].sender) THEN Err(m)
        ELSE Ok([Enqueue(m, m.cc[addr].sender, Event("AuthReconnectChallenge", "Success"))
                   EXCEPT !.cc[addr].state = ReconnectProof(account_name)])

(***************************************************************************)
(* ClientManager::handle_reconnect_proof.                                  *)
(* verify_ok: SrpServer::verify_reconnection_attempt returns true.         *)
(***************************************************************************)
handle_reconnect_proof(m, addr, verify_ok) ==
    IF addr \notin DOMAIN m.cc THEN Panic(m)
    ELSE IF m.cc[addr].state.tag # "ReconnectProof"
    THEN RejectProofThenErr(m, addr, "FailUnknownAccount")
    ELSE
      LET username == m.cc[addr].state.username
      IN  \* lines 422-427: three unwraps
          IF username \notin DOMAIN m.aa THEN Panic(m)
          ELSE IF m.aa[username] \notin DOMAIN m.cc THEN Panic(m)
          ELSE IF m.cc[m.aa[username]].authentication = NoAuthentication THEN Panic(m)
          ELSE IF ~SendOk(m.cc[addr].sender) THEN Err(m)
          ELSE
            LET m1 == Enqueue(m, m.cc[addr].sender,
                              Event("AuthReconnectProof",
                                    IF verify_ok THEN "Success" ELSE "FailIncorrectPassword"))
                stale_client == m1.cc[m1.aa[username]]
                m2 == [m1 EXCEPT !.cc = MapRemove(@, m1.aa[username])]
            IN  IF ~verify_ok THEN Ok([m1 EXCEPT !.cc[addr].state = Connected])
                \* line 453: connected_clients.get_mut(addr).unwrap()
                ELSE IF addr \notin DOMAIN m2.cc THEN Panic(m2)
                ELSE Ok([m2 EXCEPT !.cc[addr].authentication = stale_client.authentication,
                                   !.cc[addr].state = LogOnProof])

\* A check that lets a session in ReconnectProof through.
IsLogOnProofOrReconnectProof(state) == state.tag \in {"LogOnProof", "ReconnectProof"}

\* `matches!(client.state, Some(ClientState::LogOnProof))` (line 468).
IsLogOnProof(state) == state = LogOnProof

(***************************************************************************)
(* ClientManager::handle_realm_list.                                       *)
(* db_ok: get_account_by_username and get_realm_list succeed.              *)
(***************************************************************************)
handle_realm_list(m, addr, db_ok) ==
    IF addr \notin DOMAIN m.cc THEN Panic(m)
    ELSE
      LET client == m.cc[addr]
      IN  IF ~IsLogOnProof(client.state)
          THEN IF ~SendOk(client.sender) THEN Err(m)
               ELSE Err(Enqueue(m, client.sender, Disconnect))
          ELSE IF client.authentication = NoAuthentication THEN Panic(m)
          ELSE IF ~db_ok \/ client.authentication.username \notin DOMAIN Accounts THEN Err(m)
          ELSE IF ~SendOk(client.sender) THEN Err(m)
          ELSE Ok([Enqueue(m, client.sender, Event("RealmList", "realms"))
                     EXCEPT !.cc[addr].state = LogOnProof])

(***************************************************************************)
(* ClientManager::run, the ClientEvent::Message arm (lines 156-163): an    *)
(* error of the handler removes the client and sends it Disconnect; both   *)
(* the remove and the send are unwrapped.                                  *)
(***************************************************************************)
OnHandlerResult(r, addr) ==
    IF r.res # "err" THEN r
    ELSE IF addr \notin DOMAIN r.cc THEN Panic(r)
    ELSE LET client == r.cc[addr]
             r1 == [r EXCEPT !.cc = MapRemove(@, addr)]
         IN  IF ~SendOk(client.sender) THEN Panic(r1)
             ELSE Ok(Enqueue(r1, client.sender, Disconnect))

(***************************************************************************)
(* Initial state: ClientManager::new, no connection accepted yet.          *)
(***************************************************************************)
InitAuth ==
    /\ connected_clients = EmptyMap
    /\ authenticated_addresses = EmptyMap
    /\ mailbox = [c \in ConnIds |-> <<>>]
    /\ receiver_alive = [c \in ConnIds |-> FALSE]
    /\ num_connections = 0
    /\ connection_addr = [c \in ConnIds |-> NoAddr]
    /\ sessionkey = [u \in DOMAIN Accounts |-> 0]
    /\ now = 0
    /\ manager = "running"

\* The manager as the record the handlers thread.
Manager ==
    [cc |-> connected_clients, aa |-> authenticated_addresses, mb |-> mailbox,
     sk |-> sessionkey, res |-> "ok"]

\* The manager's variables after a handler (and run's error arm) ended as r.
Commit(r) ==
    /\ connected_clients' = r.cc
    /\ authenticated_addresses' = r.aa
    /\ mailbox' = r.mb
    /\ sessionkey' = r.sk
    /\ manager' = IF r.res = "panic" THEN "panicked" ELSE "running"
    /\ UNCHANGED <<receiver_alive, num_connections, connection_addr, now>>

\* Every live connection task drains its mailbox; the model lets the manager
\* take the next event once each live mailbox has room for a handler's sends.
MailboxesHaveRoom ==
    \A c \in ConnIds : receiver_alive[c] => Len(mailbox[c]) + 2 <= MaxMailbox

\* A Message{addr, ..} is only ever sent by a task that sent Connection{addr}
\* before it, on the same FIFO channel.
EverConnected(addr) == \E c \in ConnIds : connection_addr[c] = addr

(***************************************************************************)
(* main.rs handle_incoming_connection creates the channel and sends        *)
(* ClientEvent::Connection; ClientManager::run inserts a new Client        *)
(* (HashMap::insert replaces a record already stored under addr).          *)
(***************************************************************************)
Connection(addr) ==
    /\ manager = "running"
    /\ num_connections < MaxConnections
    /\ num_connections' = num_connections + 1
    /\ receiver_alive' = [receiver_alive EXCEPT ![num_connections + 1] = TRUE]
    /\ connection_addr' = [connection_addr EXCEPT ![num_connections + 1] = addr]
    /\ connected_clients' =
           MapInsert(connected_clients, addr, NewClient(num_connections + 1, now))
    /\ UNCHANGED <<authenticated_addresses, mailbox, sessionkey, now, manager>>

MessageReady(addr) ==
    /\ manager = "running"
    /\ EverConnected(addr)
    /\ MailboxesHaveRoom

LogonChallenge(addr, account_name, db_ok) ==
    /\ MessageReady(addr)
    /\ Commit(OnHandlerResult(
           handle_auth_logon_challenge(Manager, addr, account_name, db_ok), addr))

LogonProof(addr, key_ok, proof_ok, db_ok) ==
    /\ MessageReady(addr)
    /\ Commit(OnHandlerResult(
           handle_auth_logon_proof(Manager, addr, key_ok, proof_ok, db_ok), addr))

ReconnectChallenge(addr, account_name) ==
    /\ MessageReady(addr)
    /\ Commit(OnHandlerResult(handle_reconnect_challenge(Manager, addr, account_name), addr))

ReconnectProofMsg(addr, verify_ok) ==
    /\ MessageReady(addr)
    /\ Commit(OnHandlerResult(handle_reconnect_proof(Manager, addr, verify_ok), addr))

RealmList(addr, db_ok) ==
    /\ MessageReady(addr)
    /\ Commit(OnHandlerResult(handle_realm_list(Manager, addr, db_ok), addr))

(***************************************************************************)
(* ClientManager::reconnect_clients_cleaner, run on ClientManagerEvent::   *)
(* Tick.                                                                   *)
(***************************************************************************)
Fresh(client) == now - client.created_at < AUTH_RECONNECT_LIFETIME

reconnect_clients_cleaner ==
    LET keptAuth == {u \in DOMAIN authenticated_addresses :
                        /\ authenticated_addresses[u] \in DOMAIN connected_clients
                        /\ Fresh(connected_clients[authenticated_addresses[u]])}
        keptClients == {a \in DOMAIN connected_clients : Fresh(connected_clients[a])}
    IN  /\ authenticated_addresses' = [u \in keptAuth |-> authenticated_addresses[u]]
        /\ connected_clients' = [a \in keptClients |-> connected_clients[a]]

Tick ==
    /\ manager = "running"
    /\ reconnect_clients_cleaner
    /\ UNCHANGED <<mailbox, receiver_alive, num_connections, connection_addr, sessionkey,
                   now, manager>>

\* Time passes between two events of the manager.
TimePasses ==
    /\ manager = "running"
    /\ \E t \in Instants : t > now /\ (\A t2 \in Instants : t2 > now => t <= t2) /\ now' = t
    /\ UNCHANGED <<connected_clients, authenticated_addresses, mailbox, receiver_alive,
                   num_connections, connection_addr, sessionkey, manager>>

(***************************************************************************)
(* main.rs handle_incoming_connection, the ConnectionEvent::Server arm:    *)
(* the task takes the next ServerEvent of its mailbox and writes it to the *)
(* socket; on Disconnect it shuts the stream down and ends, which drops    *)
(* the Receiver together with whatever is still queued.                    *)
(***************************************************************************)
ActorRecv(c) ==
    /\ manager = "running"
    /\ receiver_alive[c]
    /\ mailbox[c] # <<>>
    /\ IF Head(mailbox[c]) = Disconnect
       THEN /\ receiver_alive' = [receiver_alive EXCEPT ![c] = FALSE]
            /\ mailbox' = [mailbox EXCEPT ![c] = <<>>]
       ELSE /\ mailbox' = [mailbox EXCEPT ![c] = Tail(@)]
            /\ UNCHANGED receiver_alive
    /\ UNCHANGED <<connected_clients, authenticated_addresses, num_connections, connection_addr,
                   sessionkey, now, manager>>

\* What handle_incoming_connection sends on client_manager_sender when it
\* leaves its loop: lines 91-96 and 123-127 shut the stream down and break,
\* a failed read or write returns through `?`, and line 131 returns Ok.  None
\* of them sends a ClientEvent (the enum has Connection and Message only).
SentOnExit == {}

\* The task ends on a socket error (read, write or shutdown fails).
ActorExit(c) ==
    /\ manager = "running"
    /\ receiver_alive[c]
    /\ receiver_alive' = [receiver_alive EXCEPT ![c] = FALSE]
    /\ mailbox' = [mailbox EXCEPT ![c] = <<>>]
    /\ UNCHANGED <<connected_clients, authenticated_addresses, num_connections, connection_addr,
                   sessionkey, now, manager>>

NextAuth ==
    \/ \E addr \in Addrs : Connection(addr) /\ UNCHANGED <<world_vars, conn_vars, inventory_vars>>
    \/ \E addr \in Addrs, u \in Usernames, db_ok \in BOOLEAN :
           LogonChallenge(addr, u, db_ok) /\ UNCHANGED <<world_vars, conn_vars, inventory_vars>>
    \/ \E addr \in Addrs, key_ok, proof_ok, db_ok \in BOOLEAN :
           LogonProof(addr, key_ok, proof_ok, db_ok) /\ UNCHANGED <<world_vars, conn_vars, inventory_vars>>
    \/ \E addr \in Addrs, u \in Usernames : ReconnectChallenge(addr, u) /\ UNCHANGED <<world_vars, conn_vars, inventory_vars>>
    \/ \E addr \in Addrs, verify_ok \in BOOLEAN :
           ReconnectProofMsg(addr, verify_ok) /\ UNCHANGED <<world_vars, conn_vars, inventory_vars>>
    \/ \E addr \in Addrs, db_ok \in BOOLEAN : RealmList(addr, db_ok) /\ UNCHANGED <<world_vars, conn_vars, inventory_vars>>
    \/ Tick /\ UNCHANGED <<world_vars, conn_vars, inventory_vars>>
    \/ TimePasses /\ UNCHANGED <<world_vars, conn_vars, inventory_vars>>
    \/ \E c \in ConnIds : ActorRecv(c) /\ UNCHANGED <<world_vars, conn_vars, inventory_vars>>
    \/ \E c \in ConnIds : ActorExit(c) /\ UNCHANGED <<world_vars, conn_vars, inventory_vars>>

(***************************************************************************)
(* World server.                                                           *)
(*                                                                         *)
(* The handlers of the world server thread a record                        *)
(*     w = [cl, chars, maps, out, res]                                     *)
(* cl = ClientManager.clients, chars = CharacterManager.characters,        *)
(* maps = InstanceManager.world_maps, out = the ServerEvents sent to each  *)
(* connection, res = "ok" | "err" | "panic" as for the auth handlers.      *)
(***************************************************************************)
MaxClients == 2

VISIBILITY_RANGE == 5000

\* Client addresses; the connection of address a is named a as well, and the
\* account behind it owns the one character whose guid is a.
RealmAddrs == 1..MaxClients
\* Every address a realm connection comes from: the clients, and one more
\* for a client that comes back on a new connection.
SocketAddrs == 1..(MaxClients + 1)
Guids == 1..MaxClients
NoGuid == 0
MapIds == {0, 1}

\* XY positions: (4999,0) is at distance 4999 from the origin, (5001,0) at
\* distance 5001, and the two are at distance 2 from each other.
Positions == {<<0, 0>>, <<4999, 0>>, <<5001, 0>>}
\* The time sync counter of a character is a u32; the model stops it here.
MaxTimeSync == 1
NoPosition == <<>>

\* ClientState and Client::new (client.rs).
NewRealmClient(connection_sender) ==
    [client_state |-> "CharacterSelection", active_character |-> NoGuid,
     connection_sender |-> connection_sender]

is_authenticated(client) == client.client_state # "PreLogin"

\* TeleportationDistance::Far(WorldZoneLocation) and TeleportationState.
Far(map, position) == [map |-> map, position |-> position]
Near(position) == [position |-> position]
IsFar(dist) == "map" \in DOMAIN dist
TeleportNone == [state |-> "None"]
Queued(dist) == [state |-> "Queued", dist |-> dist]
Executing(dist) == [state |-> "Executing", dist |-> dist]

\* The fields of Character the tick engine and the handlers read and write.
NewCharacter(connection_sender, map, position) ==
    [connection_sender |-> connection_sender, map |-> map, position |-> position,
     in_range |-> {}, recently_removed |-> {}, dirty |-> FALSE, pending |-> <<>>,
     teleportation_state |-> TeleportNone, time_sync_counter |-> 0,
     logout_state |-> "None"]

\* MapManager::new.
NewMapManager ==
    [characters_on_map |-> {}, characters_query_tree |-> {},
     add_queue |-> <<>>, remove_queue |-> <<>>]

\* ServerEvents and object update blocks.
ServerEvent(ev, guid, objects) == [ev |-> ev, guid |-> guid, objects |-> objects]
DestroyObject(guid) == ServerEvent("DestroyObject", guid, <<>>)
UpdateObject(objects) == ServerEvent("UpdateObject", NoGuid, objects)
MovementEvent(guid) == ServerEvent("Movement", guid, <<>>)
Block(kind, guid, guids) == [kind |-> kind, guid |-> guid, guids |-> guids]

\* A Vec holding the elements of a set of guids, in ascending order.
RECURSIVE SetToSeq(_)
SetToSeq(S) ==
    IF S = {} THEN <<>>
    ELSE LET x == CHOOSE x \in S : \A y \in S : x <= y
         IN  <<x>> \o SetToSeq(S \ {x})

\* The orders in which a HashMap / HashSet holding S may be iterated.
Perms(S) ==
    {s \in [1..Cardinality(S) -> S] : \A i, j \in 1..Cardinality(S) : i # j => s[i] # s[j]}

SeqFilter(s, S) == SelectSeq(s, LAMBDA x : x \in S)

\* `?` and the statements after it: go on with F only when w is Ok.
OnOk(w, F(_)) == IF w.res # "ok" THEN w ELSE F(w)

(***************************************************************************)
(* ServerEvent::send_to_character: send_async on the character's           *)
(* connection_sender fails once the connection task dropped the Receiver.  *)
(***************************************************************************)
send_to_character(w, guid, ev) ==
    LET c == w.chars[guid].connection_sender
    IN  IF conn[c] = "open" THEN [w EXCEPT !.out[c] = Append(@, ev)] ELSE Err(w)

\* handlers::send_destroy_object(character, object_guid, is_death).
send_destroy_object(w, character, object_guid) ==
    send_to_character(w, character, DestroyObject(object_guid))

(***************************************************************************)
(* The in-range set, the recently-removed list and the pending updates of  *)
(* a Character.                                                            *)
(***************************************************************************)
is_in_range(ch, guid) == guid \in ch.in_range
add_in_range_character(ch, guid) == [ch EXCEPT !.in_range = @ \cup {guid}]
remove_in_range_object(ch, guid) ==
    [ch EXCEPT !.in_range = @ \ {guid}, !.recently_removed = @ \cup {guid}]
clear_in_range_objects(ch) == [ch EXCEPT !.in_range = {}]
push_object_update(ch, block) == [ch EXCEPT !.pending = Append(@, block)]

build_out_of_range_update_block_for_player(ch) ==
    IF ch.recently_removed = {} THEN <<>>
    ELSE <<Block("out_of_range", NoGuid, ch.recently_removed)>>

process_pending_updates(w, guid) ==
    IF w.chars[guid].pending = <<>> THEN w
    ELSE OnOk(send_to_character(w, guid, UpdateObject(w.chars[guid].pending)),
              LAMBDA w1 : [w1 EXCEPT !.chars[guid].pending = <<>>])

(***************************************************************************)
(* The spatial index: RStarTreeItem, RTree::bulk_load / insert and         *)
(* locate_within_distance(point, max_squared_radius), which returns the    *)
(* items whose distance_2 (the squared distance) is at most its second     *)
(* argument.                                                               *)
(***************************************************************************)
RStarTreeItem(guid, position) == [guid |-> guid, x |-> position[1], y |-> position[2]]

distance_2(item, point) ==
    (item.x - point[1]) * (item.x - point[1]) + (item.y - point[2]) * (item.y - point[2])

locate_within_distance(tree, point, max_squared_radius) ==
    {item \in tree : distance_2(item, point) <= max_squared_radius}

\* An index that is never reloaded.
keep_object_querying_tree(w, id) == w

\* MapManager::rebuild_object_querying_tree.
rebuild_object_querying_tree(w, id) ==
    LET on_map == w.maps[id].characters_on_map
    IN  IF \E guid \in on_map : guid \notin DOMAIN w.chars THEN Err(w)
        ELSE [w EXCEPT !.maps[id].characters_query_tree =
                 {RStarTreeItem(guid, w.chars[guid].position) :
                     guid \in {g \in on_map : w.chars[g].position # NoPosition}}]

(***************************************************************************)
(* MapManager::remove_object_by_guid_internal.                             *)
(***************************************************************************)
RECURSIVE RemoveFromObservers(_, _, _)
RemoveFromObservers(w, guid, in_range_guids) ==
    IF in_range_guids = <<>> THEN w
    ELSE IF Head(in_range_guids) \notin DOMAIN w.chars THEN Err(w)
    ELSE OnOk(send_destroy_object(w, Head(in_range_guids), guid), LAMBDA w1 :
             RemoveFromObservers(
                 [w1 EXCEPT !.chars[Head(in_range_guids)] = remove_in_range_object(@, guid)],
                 guid, Tail(in_range_guids)))

\* The else branch: the Character is gone from the manager.
RECURSIVE BruteforceRemoval(_, _, _)
BruteforceRemoval(w, guid, on_map) ==
    IF on_map = <<>> THEN w
    ELSE IF Head(on_map) \notin DOMAIN w.chars THEN Err(w)
    ELSE BruteforceRemoval(
             [w EXCEPT !.chars[Head(on_map)] =
                 IF is_in_range(@, guid) THEN remove_in_range_object(@, guid) ELSE @],
             guid, Tail(on_map))

RemoveFromMap(w, id, guid) ==
    IF guid \in DOMAIN w.chars
    THEN OnOk(RemoveFromObservers(
                  w, guid,
                  SetToSeq(w.chars[guid].in_range \cap w.maps[id].characters_on_map)),
              LAMBDA w1 : [w1 EXCEPT !.chars[guid] = clear_in_range_objects(@)])
    ELSE BruteforceRemoval(w, guid, SetToSeq(w.maps[id].characters_on_map))

remove_object_by_guid_internal(w, id, guid) ==
    IF guid \notin w.maps[id].characters_on_map THEN w
    ELSE OnOk(RemoveFromMap([w EXCEPT !.maps[id].characters_on_map = @ \ {guid}], id, guid),
              LAMBDA w1 : rebuild_object_querying_tree(w1, id))

\* MapManager::process_remove_queue: the queue is cleared after the loop only.
RECURSIVE RemoveEach(_, _, _)
RemoveEach(w, id, queue) ==
    IF queue = <<>> THEN w
    ELSE OnOk(remove_object_by_guid_internal(w, id, Head(queue)), LAMBDA w1 :
             RemoveEach(w1, id, Tail(queue)))

process_remove_queue(w, id) ==
    OnOk(RemoveEach(w, id, w.maps[id].remove_queue), LAMBDA w1 :
        [w1 EXCEPT !.maps[id].remove_queue = <<>>])

(***************************************************************************)
(* MapManager::push_character_internal and process_add_queue.              *)
(***************************************************************************)
push_character_internal(w, id, guid) ==
    IF guid \notin DOMAIN w.chars THEN Err(w)
    ELSE IF w.chars[guid].position = NoPosition THEN Panic(w)
    ELSE [w EXCEPT !.maps[id].characters_on_map = @ \cup {guid},
                   !.maps[id].characters_query_tree =
                       @ \cup {RStarTreeItem(guid, w.chars[guid].position)}]

RECURSIVE AddEach(_, _, _)
AddEach(w, id, queue) ==
    IF queue = <<>> THEN w
    ELSE OnOk(push_character_internal(w, id, Head(queue)), LAMBDA w1 :
             AddEach(w1, id, Tail(queue)))

process_add_queue(w, id) ==
    OnOk(AddEach(w, id, w.maps[id].add_queue), LAMBDA w1 :
        [w1 EXCEPT !.maps[id].add_queue = <<>>])

(***************************************************************************)
(* MapManager::update_in_range_set.                                        *)
(***************************************************************************)
\* Lines 172-180: drop from the character's list what the tree no longer
\* returns.
RECURSIVE RemoveOutOfRange(_, _)
RemoveOutOfRange(ch, destroyed_guids) ==
    IF destroyed_guids = <<>> THEN ch
    ELSE RemoveOutOfRange(remove_in_range_object(ch, Head(destroyed_guids)),
                          Tail(destroyed_guids))

\* Lines 183-186: inside the loop `guid` is the loop variable, so the
\* character looked up is the dropped one and the guid named by the message
\* is that same guid.
RECURSIVE SendDestroyed(_, _)
SendDestroyed(w, destroyed_guids) ==
    IF destroyed_guids = <<>> THEN w
    ELSE IF Head(destroyed_guids) \notin DOMAIN w.chars THEN Err(w)
    ELSE OnOk(send_destroy_object(w, Head(destroyed_guids), Head(destroyed_guids)),
              LAMBDA w1 : SendDestroyed(w1, Tail(destroyed_guids)))

\* Only the second of the two skip conditions of lines 190-201.
SkipKnown(w, guid, in_range_guid) ==
    is_in_range(w.chars[guid], in_range_guid)

\* Lines 190-201: skip ourselves, and skip what is already in our range.
Skip(w, guid, in_range_guid) ==
    in_range_guid = guid \/ is_in_range(w.chars[guid], in_range_guid)

\* Lines 189-227.
RECURSIVE AddWithinRange(_, _, _)
AddWithinRange(w, guid, within_range) ==
    IF within_range = <<>> THEN w
    ELSE IF Skip(w, guid, Head(within_range))
    THEN AddWithinRange(w, guid, Tail(within_range))
    ELSE IF Head(within_range) \notin DOMAIN w.chars THEN Err(w)
    ELSE AddWithinRange(
             [w EXCEPT
                 !.chars[Head(within_range)] =
                     push_object_update(add_in_range_character(@, guid),
                                        Block("create", guid, {})),
                 !.chars[guid] =
                     push_object_update(add_in_range_character(@, Head(within_range)),
                                        Block("create", Head(within_range), {}))],
             guid, Tail(within_range))

\* Lines 158-165.
WithinRange(w, id, guid) ==
    {item.guid : item \in locate_within_distance(w.maps[id].characters_query_tree,
                                                 w.chars[guid].position, VISIBILITY_RANGE)}

update_in_range_set(w, id, guid) ==
    IF guid \notin DOMAIN w.chars THEN Err(w)
    ELSE IF w.chars[guid].position = NoPosition THEN w
    ELSE OnOk(SendDestroyed(
                  [w EXCEPT !.chars[guid] =
                      RemoveOutOfRange(@, SetToSeq(@.in_range \ WithinRange(w, id, guid)))],
                  SetToSeq(w.chars[guid].in_range \ WithinRange(w, id, guid))),
              LAMBDA w1 : AddWithinRange(w1, guid, SetToSeq(WithinRange(w, id, guid))))

(***************************************************************************)
(* MapManager::tick.                                                       *)
(***************************************************************************)
\* A values update that goes to every character there is.
PushToEveryone(w, in_range_guids, values_update) ==
    [w EXCEPT !.chars = [g \in DOMAIN w.chars |-> push_object_update(w.chars[g], values_update)]]

\* Lines 101-106: the values update goes to every character in range.
RECURSIVE PushToInRange(_, _, _)
PushToInRange(w, in_range_guids, values_update) ==
    IF in_range_guids = <<>> THEN w
    ELSE IF Head(in_range_guids) \notin DOMAIN w.chars THEN Err(w)
    ELSE PushToInRange(
             [w EXCEPT !.chars[Head(in_range_guids)] = push_object_update(@, values_update)],
             Tail(in_range_guids), values_update)

\* Lines 85-91.
OutOfRangeUpdate(w, guid) ==
    IF build_out_of_range_update_block_for_player(w.chars[guid]) # <<>>
    THEN [w EXCEPT !.chars[guid] =
             push_object_update(
                 [@ EXCEPT !.recently_removed = {}],
                 build_out_of_range_update_block_for_player(w.chars[guid])[1])]
    ELSE w

\* Lines 93-110 without the loop of lines 101-106.
ValuesUpdateToSelf(w, guid) ==
    [w EXCEPT !.chars[guid] =
        [push_object_update(@, Block("values", guid, {})) EXCEPT !.dirty = FALSE]]

\* Lines 93-110.
ValuesUpdate(w, guid) ==
    OnOk(PushToInRange(
             [w EXCEPT !.chars[guid] = push_object_update(@, Block("values", guid, {}))],
             SetToSeq(w.chars[guid].in_range), Block("values", guid, {})),
         LAMBDA w1 : [w1 EXCEPT !.chars[guid].dirty = FALSE])

\* Lines 76-111.  Line 82 stores is_empty() of the recently-removed list in
\* has_something_recently_removed.
UpdateBlocks(w, guid, any_removed, any_added) ==
    LET has_any_update_bit == w.chars[guid].dirty
        has_something_recently_removed == w.chars[guid].recently_removed = {}
    IN  IF \/ has_any_update_bit
           \/ any_removed
           \/ any_added
           \/ has_something_recently_removed
        THEN IF has_any_update_bit
             THEN ValuesUpdate(OutOfRangeUpdate(w, guid), guid)
             ELSE OutOfRangeUpdate(w, guid)
        ELSE w

\* Lines 74-113: the body of the loop over characters_on_map.
TickCharacter(w, id, guid, any_removed, any_added) ==
    OnOk(update_in_range_set(w, id, guid), LAMBDA w1 :
    OnOk(UpdateBlocks(w1, guid, any_removed, any_added), LAMBDA w2 :
        process_pending_updates(w2, guid)))

RECURSIVE TickCharacters(_, _, _, _, _)
TickCharacters(w, id, guids, any_removed, any_added) ==
    IF guids = <<>> THEN w
    ELSE OnOk(TickCharacter(w, id, Head(guids), any_removed, any_added), LAMBDA w1 :
             TickCharacters(w1, id, Tail(guids), any_removed, any_added))

\* order: the order in which the HashSet characters_on_map yields its guids.
tick(w, id, order) ==
    OnOk(rebuild_object_querying_tree(w, id), LAMBDA w1 :
    OnOk(process_remove_queue(w1, id), LAMBDA w2 :
    OnOk(process_add_queue(w2, id), LAMBDA w3 :
        TickCharacters(w3, id, SeqFilter(order, w3.maps[id].characters_on_map),
                       w.maps[id].remove_queue # <<>>, w.maps[id].add_queue # <<>>))))

(***************************************************************************)
(* InstanceManager: get_or_create_map (is_instance is false for every map) *)
(* and handle_client_disconnected.                                         *)
(***************************************************************************)
get_or_create_map(w, map) ==
    IF map \in DOMAIN w.maps THEN w
    ELSE [w EXCEPT !.maps = MapInsert(@, map, NewMapManager)]

\* MapManager::push_character and remove_object_by_guid.
push_character(w, id, guid) == [w EXCEPT !.maps[id].add_queue = Append(@, guid)]
remove_object_by_guid(w, id, guid) == [w EXCEPT !.maps[id].remove_queue = Append(@, guid)]

handle_client_disconnected(w, client) ==
    IF client.active_character = NoGuid THEN w
    ELSE IF client.active_character \notin DOMAIN w.chars THEN Err(w)
    ELSE IF w.chars[client.active_character].map \in DOMAIN w.maps
    THEN remove_object_by_guid(w, w.chars[client.active_character].map,
                               client.active_character)
    ELSE w

(***************************************************************************)
(* ClientManager::cleanup_disconnected_clients.  ids: the order in which   *)
(* the HashMap clients is iterated.                                        *)
(***************************************************************************)
\* Client::disconnected_post_cleanup.
disconnected_post_cleanup(w, id) ==
    [w EXCEPT !.cl[id].client_state = "Disconnected", !.cl[id].active_character = NoGuid]

RECURSIVE CleanupEach(_, _, _)
CleanupEach(w, ids, to_remove) ==
    IF ids = <<>> THEN [w EXCEPT !.cl = [id \in DOMAIN w.cl \ to_remove |-> w.cl[id]]]
    ELSE IF w.cl[Head(ids)].client_state = "DisconnectPendingCleanup"
    THEN OnOk(handle_client_disconnected(w, w.cl[Head(ids)]), LAMBDA w1 :
             CleanupEach(disconnected_post_cleanup(w1, Head(ids)), Tail(ids), to_remove))
    ELSE IF w.cl[Head(ids)].client_state = "Disconnected"
    THEN CleanupEach(w, Tail(ids), to_remove \cup {Head(ids)})
    ELSE CleanupEach(w, Tail(ids), to_remove)

cleanup_disconnected_clients(w, ids) == CleanupEach(w, ids, {})

(***************************************************************************)
(* ClientManager::get_authenticated_client followed by                     *)
(* Client::get_active_character, the opening of every handler that acts on *)
(* the client's character: Err for an unknown or unauthenticated client,   *)
(* and active_character.unwrap() panics when the client has no character.  *)
(***************************************************************************)
get_authenticated_client(w, id) ==
    IF id \notin DOMAIN w.cl THEN Err(w)
    ELSE IF ~is_authenticated(w.cl[id]) THEN Err(w)
    ELSE w

get_active_character(w, id) ==
    IF w.cl[id].active_character = NoGuid THEN Panic(w) ELSE w

\* ServerEvent::send_to_all_in_range.
RECURSIVE SendToEach(_, _, _)
SendToEach(w, guids, ev) ==
    IF guids = <<>> THEN w
    ELSE IF Head(guids) \notin DOMAIN w.chars THEN Err(w)
    ELSE OnOk(send_to_character(w, Head(guids), ev), LAMBDA w1 :
             SendToEach(w1, Tail(guids), ev))

send_to_all_in_range(w, guid, ev, include_self) ==
    IF w.chars[guid].map \in DOMAIN w.maps
    THEN OnOk(SendToEach(w, SetToSeq(w.chars[guid].in_range), ev), LAMBDA w1 :
             IF include_self THEN send_to_character(w1, guid, ev) ELSE w1)
    ELSE w

\* A check that only sees a queued teleport.
IsQueued(teleportation_state) == teleportation_state.state = "Queued"

\* `character.teleportation_state != TeleportationState::None` (line 70).
IsTeleporting(teleportation_state) == teleportation_state # TeleportNone

\* handle_movement_generic; position: the XY of the packet's MovementInfo.
\* Lines 68-85, guid being the client's active character.
MoveAndBroadcast(w, guid, position) ==
    IF guid \notin DOMAIN w.chars THEN Err(w)
    ELSE IF IsTeleporting(w.chars[guid].teleportation_state) THEN w
    ELSE send_to_all_in_range([w EXCEPT !.chars[guid].position = position],
                              guid, MovementEvent(guid), FALSE)

handle_movement_generic(w, client_id, position) ==
    OnOk(get_authenticated_client(w, client_id), LAMBDA w1 :
    OnOk(get_active_character(w1, client_id), LAMBDA w2 :
        MoveAndBroadcast(w2, w2.cl[client_id].active_character, position)))

\* handle_cmsg_set_actionbar_toggles: the character writes one of its update
\* fields, which marks the field dirty in its update mask.
set_visible_actionbar_mask(w, guid) ==
    IF guid \notin DOMAIN w.chars THEN Err(w)
    ELSE [w EXCEPT !.chars[guid].dirty = TRUE]

handle_cmsg_set_actionbar_toggles(w, client_id) ==
    OnOk(get_authenticated_client(w, client_id), LAMBDA w1 :
    OnOk(get_active_character(w1, client_id), LAMBDA w2 :
        set_visible_actionbar_mask(w2, w2.cl[client_id].active_character)))

\* Client::load_and_set_active_character, then Client::login_active_character.
\* map, position: where the realm database has the character.
load_and_set_active_character(w, client_id, character_guid, map, position) ==
    [w EXCEPT !.chars = MapInsert(@, character_guid,
                            NewCharacter(w.cl[client_id].connection_sender, map, position)),
              !.cl[client_id].active_character = character_guid]

PushToOwnMap(w, guid) ==
    IF guid \notin DOMAIN w.chars THEN Err(w)
    ELSE push_character(get_or_create_map(w, w.chars[guid].map), w.chars[guid].map, guid)

login_active_character(w, client_id) ==
    OnOk(get_active_character(w, client_id), LAMBDA w1 :
        PushToOwnMap(w1, w1.cl[client_id].active_character))

(***************************************************************************)
(* The far teleport: handle_msg_world_teleport queues it, the character's  *)
(* own tick promotes it and tells the client, and                          *)
(* handle_msg_move_worldport_ack completes it.                             *)
(***************************************************************************)
\* Character::teleport_to.
teleport_to(w, guid, dist) ==
    IF guid \notin DOMAIN w.chars THEN Err(w)
    ELSE [w EXCEPT !.chars[guid].teleportation_state = Queued(dist)]

handle_msg_world_teleport(w, client_id, map, position) ==
    OnOk(get_authenticated_client(w, client_id), LAMBDA w1 :
    OnOk(get_active_character(w1, client_id), LAMBDA w2 :
        teleport_to(w2, w2.cl[client_id].active_character, Far(map, position))))

\* Character::send_packets_before_add_to_map and send_packets_after_add_to_map.
send_packets_before_add_to_map(w, guid) ==
    send_to_character(w, guid, ServerEvent("BeforeAddToMap", guid, <<>>))
send_packets_after_add_to_map(w, guid) ==
    send_to_character(w, guid, ServerEvent("AfterAddToMap", guid, <<>>))

\* Lines 162-185 of handle_msg_move_worldport_ack, the state being
\* Executing(Far(destination)).
WorldportArrive(w, guid, destination) ==
    OnOk([get_or_create_map(w, destination.map) EXCEPT
              !.chars[guid].map = destination.map,
              !.chars[guid].position = destination.position,
              !.chars[guid].time_sync_counter = 0], LAMBDA w1 :
    OnOk(send_packets_before_add_to_map(w1, guid), LAMBDA w2 :
    OnOk(send_packets_after_add_to_map(
             push_character(get_or_create_map(w2, destination.map),
                            destination.map, guid), guid), LAMBDA w3 :
        [w3 EXCEPT !.chars[guid].teleportation_state = TeleportNone])))

\* A pattern that matches every Executing state.
IsExecuting(teleportation_state) == teleportation_state.state = "Executing"

\* `if let TeleportationState::Executing(TeleportationDistance::Far(destination))
\* = teleportation_state` (line 162).
IsExecutingFar(teleportation_state) ==
    /\ teleportation_state.state = "Executing"
    /\ IsFar(teleportation_state.dist)

\* `if let TeleportationState::Executing(TeleportationDistance::Near(destination))
\* = character.teleportation_state.clone()` (line 141).
IsExecutingNear(teleportation_state) ==
    /\ teleportation_state.state = "Executing"
    /\ ~IsFar(teleportation_state.dist)

\* Lines 155-161 and 186-188.
WorldportAckFor(w, guid) ==
    IF guid \notin DOMAIN w.chars THEN Err(w)
    ELSE IF IsExecutingFar(w.chars[guid].teleportation_state)
    THEN WorldportArrive(w, guid, w.chars[guid].teleportation_state.dist)
    ELSE w

handle_msg_move_worldport_ack(w, client_id) ==
    OnOk(get_authenticated_client(w, client_id), LAMBDA w1 :
    OnOk(get_active_character(w1, client_id), LAMBDA w2 :
        WorldportAckFor(w2, w2.cl[client_id].active_character)))

\* handle_msg_move_teleport_ack, lines 139-146: set_position(&destination) and
\* the state back to None when the state is Executing(Near(destination)).
TeleportAckFor(w, guid) ==
    IF guid \notin DOMAIN w.chars THEN Err(w)
    ELSE IF IsExecutingNear(w.chars[guid].teleportation_state)
    THEN [w EXCEPT !.chars[guid].position = w.chars[guid].teleportation_state.dist.position,
                   !.chars[guid].teleportation_state = TeleportNone]
    ELSE w

handle_msg_move_teleport_ack(w, client_id) ==
    OnOk(get_authenticated_client(w, client_id), LAMBDA w1 :
    OnOk(get_active_character(w1, client_id), LAMBDA w2 :
        TeleportAckFor(w2, w2.cl[client_id].active_character)))

\* A near teleport of the server's own making (no opcode handler asks for
\* one): Character::teleport_to with a position on the character's map.
near_teleport(w, client_id, position) ==
    OnOk(get_authenticated_client(w, client_id), LAMBDA w1 :
    OnOk(get_active_character(w1, client_id), LAMBDA w2 :
        teleport_to(w2, w2.cl[client_id].active_character, Near(position))))

\* Character::tick, the time sync: when its timer is due the counter goes up
\* and handlers::send_time_sync tells the client.
tick_time_sync(w, guid, due) ==
    IF guid \in due /\ w.chars[guid].time_sync_counter < MaxTimeSync
    THEN send_to_character([w EXCEPT !.chars[guid].time_sync_counter = @ + 1], guid,
                           ServerEvent("TimeSyncReq", guid, <<>>))
    ELSE w

\* Character::tick, the teleport: Queued becomes Executing, and the client is
\* sent MSG_MOVE_TELEPORT_ACK (near), or SMSG_TRANSFER_PENDING and then
\* SMSG_NEW_WORLD (far).
tick_teleport(w, guid) ==
    IF w.chars[guid].teleportation_state.state = "Queued"
       /\ ~IsFar(w.chars[guid].teleportation_state.dist)
    THEN send_to_character(
             [w EXCEPT !.chars[guid].teleportation_state = Executing(@.dist)],
             guid, ServerEvent("MoveTeleportAck", guid, <<>>))
    ELSE IF w.chars[guid].teleportation_state.state = "Queued"
    THEN OnOk(send_to_character(
                  [w EXCEPT !.chars[guid].teleportation_state = Executing(@.dist)],
                  guid, ServerEvent("TransferPending", guid, <<>>)), LAMBDA w1 :
             send_to_character(w1, guid, ServerEvent("NewWorld", guid, <<>>)))
    ELSE w

\* Character::try_logout: the logout is delayed.
try_logout(w, guid) ==
    IF guid \notin DOMAIN w.chars THEN Err(w)
    ELSE [w EXCEPT !.chars[guid].logout_state = "Pending"]

\* Lines 182-184 of handle_cmsg_logout_request: the response goes to the
\* connection of the client.
send_logout_response(w, client_id) ==
    IF conn[w.cl[client_id].connection_sender] # "open" THEN Err(w)
    ELSE [w EXCEPT !.out[w.cl[client_id].connection_sender] =
             Append(@, ServerEvent("LogoutResponse", NoGuid, <<>>))]

\* handle_cmsg_logout_request.
handle_cmsg_logout_request(w, client_id) ==
    OnOk(get_authenticated_client(w, client_id), LAMBDA w1 :
    OnOk(get_active_character(w1, client_id), LAMBDA w2 :
    OnOk(try_logout(w2, w2.cl[client_id].active_character), LAMBDA w3 :
        send_logout_response(w3, client_id))))

\* The logout of a character goes on with its ticks: the delay passes, the
\* logout is executed, and the character is back at the character selection.
tick_logout_state(w, guid) ==
    IF w.chars[guid].logout_state = "Pending"
    THEN [w EXCEPT !.chars[guid].logout_state = "Executing"]
    ELSE IF w.chars[guid].logout_state = "Executing"
    THEN [w EXCEPT !.chars[guid].logout_state = "ReturnToCharSelect"]
    ELSE w

character_tick(w, guid, due) ==
    OnOk(tick_time_sync(w, guid, due), LAMBDA w1 :
    OnOk(tick_teleport(w1, guid), LAMBDA w2 : tick_logout_state(w2, guid)))

\* Lines 56-60 of Client::tick.
return_to_character_select(w, id, guid) ==
    IF w.chars[guid].logout_state = "ReturnToCharSelect"
    THEN [w EXCEPT !.cl[id].active_character = NoGuid,
                   !.cl[id].client_state = "CharacterSelection"]
    ELSE w

\* Client::tick.
client_tick(w, id, due) ==
    IF w.cl[id].active_character = NoGuid THEN w
    ELSE IF w.cl[id].active_character \notin DOMAIN w.chars THEN Err(w)
    ELSE OnOk(character_tick(w, w.cl[id].active_character, due), LAMBDA w1 :
             return_to_character_select(w1, id, w.cl[id].active_character))

\* Client::tick for every client, in the order ids of the HashMap clients.
\* due: the characters whose time sync timer ran out.
RECURSIVE clients_tick(_, _, _)
clients_tick(w, ids, due) ==
    IF ids = <<>> THEN w
    ELSE OnOk(client_tick(w, Head(ids), due), LAMBDA w1 :
             clients_tick(w1, Tail(ids), due))

\* InstanceManager::cleanup_maps.
cleanup_maps(maps) ==
    [id \in {i \in DOMAIN maps : maps[i].characters_on_map # {}} |-> maps[id]]

(***************************************************************************)
(* The main loop of the world server (main.rs): every engine tick runs     *)
(* ClientManager::tick (cleanup_disconnected_clients, then the pending     *)
(* ClientEvents, then Client::tick for every client), whose Err is logged, *)
(* and then World::tick, whose Err ends main.  pc is the position inside   *)
(* the engine tick: "cleanup", "events" or "world".                        *)
(***************************************************************************)
InitWorld ==
    /\ clients = EmptyMap
    /\ characters = EmptyMap
    /\ world_maps = EmptyMap
    /\ outbox = [c \in SocketAddrs |-> <<>>]
    /\ conn = [a \in SocketAddrs |-> "none"]
    /\ pc = "cleanup"
    /\ tick_queue = <<>>
    /\ world = "running"

\* The world as the record the handlers thread.
World ==
    [cl |-> clients, chars |-> characters, maps |-> world_maps,
     out |-> [c \in SocketAddrs |-> <<>>], res |-> "ok"]

CommitWorld(r) ==
    /\ clients' = r.cl
    /\ characters' = r.chars
    /\ world_maps' = r.maps
    /\ outbox' = r.out
    /\ world' = IF r.res = "panic" THEN "panicked" ELSE "running"

\* InstanceManager::tick_maps starts: maps.values_mut() yields the maps in
\* some order.
BeginWorldTick(maps) ==
    \E q \in Perms(DOMAIN maps) :
        /\ tick_queue' = q
        /\ pc' = IF q = <<>> THEN "cleanup" ELSE "world"

\* ClientManager::tick after one of its steps ended as r: an Err leaves the
\* tick (main logs it and goes on to World::tick).
AfterStep(r) ==
    /\ CommitWorld(r)
    /\ IF r.res = "ok" THEN pc' = "events" /\ UNCHANGED tick_queue
       ELSE IF r.res = "err" THEN BeginWorldTick(r.maps)
       ELSE UNCHANGED <<pc, tick_queue>>

CleanupDisconnectedClients ==
    /\ world = "running"
    /\ pc = "cleanup"
    /\ \E ids \in Perms(DOMAIN clients) :
           AfterStep(cleanup_disconnected_clients(World, ids))
    /\ UNCHANGED conn

\* handle_connection_events, the ClientEvent::Connected arm.  The task of the
\* connection sent the event when its handshake succeeded.
ClientConnected(addr) ==
    /\ world = "running"
    /\ pc = "events"
    /\ conn[addr] \in {"none", "done"}
    /\ addr \notin DOMAIN clients
    /\ conn' = [conn EXCEPT ![addr] = "open"]
    /\ AfterStep([World EXCEPT !.cl = MapInsert(@, addr, NewRealmClient(addr))])

\* The ClientEvent::Disconnected arm; the event is the last one of a task.
ClientDisconnected(addr) ==
    /\ world = "running"
    /\ pc = "events"
    /\ conn[addr] = "closed"
    /\ conn' = [conn EXCEPT ![addr] = "done"]
    /\ AfterStep(IF addr \in DOMAIN clients
                 THEN [World EXCEPT !.cl[addr].client_state = "DisconnectPendingCleanup"]
                 ELSE World)

\* A ClientEvent::Message of addr is taken from the channel.
PacketReady(addr) ==
    /\ world = "running"
    /\ pc = "events"
    /\ conn[addr] \in {"open", "closed"}

\* CMSG_PLAYER_LOGIN{guid} from a client at the character selection screen.
PlayerLoginAs(addr, character_guid, map, position) ==
    /\ PacketReady(addr)
    /\ addr \in DOMAIN clients
    /\ clients[addr].active_character = NoGuid
    /\ AfterStep(login_active_character(
                     load_and_set_active_character(World, addr, character_guid, map, position),
                     addr))
    /\ UNCHANGED conn

\* The client of address a logs in the character of its account, whose guid
\* is a.
PlayerLogin(addr, map, position) == PlayerLoginAs(addr, addr, map, position)

\* One of the MSG_MOVE_* opcodes.
Movement(addr, position) ==
    /\ PacketReady(addr)
    /\ AfterStep(handle_movement_generic(World, addr, position))
    /\ UNCHANGED conn

\* CMSG_SET_ACTIONBAR_TOGGLES.
SetActionbarToggles(addr) ==
    /\ PacketReady(addr)
    /\ AfterStep(handle_cmsg_set_actionbar_toggles(World, addr))
    /\ UNCHANGED conn

AfterClientsTick(r) == CommitWorld(r) /\ BeginWorldTick(r.maps)

\* The channel is empty: ClientManager::tick ends with Client::tick for every
\* client, and main goes on to World::tick.
ClientsTick(due) ==
    /\ world = "running"
    /\ pc = "events"
    /\ \E ids \in Perms(DOMAIN clients) : AfterClientsTick(clients_tick(World, ids, due))
    /\ UNCHANGED conn

\* CMSG_WORLD_TELEPORT.
WorldTeleport(addr, map, position) ==
    /\ PacketReady(addr)
    /\ AfterStep(handle_msg_world_teleport(World, addr, map, position))
    /\ UNCHANGED conn

\* MSG_MOVE_WORLDPORT_ACK.
WorldportAck(addr) ==
    /\ PacketReady(addr)
    /\ AfterStep(handle_msg_move_worldport_ack(World, addr))
    /\ UNCHANGED conn

\* CMSG_LOGOUT_REQUEST.
LogoutRequest(addr) ==
    /\ PacketReady(addr)
    /\ AfterStep(handle_cmsg_logout_request(World, addr))
    /\ UNCHANGED conn

\* MSG_MOVE_TELEPORT_ACK.
TeleportAck(addr) ==
    /\ PacketReady(addr)
    /\ AfterStep(handle_msg_move_teleport_ack(World, addr))
    /\ UNCHANGED conn

\* The server teleports the character of addr within its map.
NearTeleport(addr, position) ==
    /\ PacketReady(addr)
    /\ AfterStep(near_teleport(World, addr, position))
    /\ UNCHANGED conn

\* The main loop after the MapManager::tick of Head(tick_queue) ended as r.
AfterMapTick(r) ==
    /\ clients' = r.cl
    /\ characters' = r.chars
    /\ outbox' = r.out
    /\ world_maps' = IF r.res = "ok" /\ Tail(tick_queue) = <<>>
                     THEN cleanup_maps(r.maps) ELSE r.maps
    /\ world' = IF r.res = "ok" THEN "running"
                ELSE IF r.res = "err" THEN "stopped" ELSE "panicked"
    /\ tick_queue' = IF r.res = "ok" THEN Tail(tick_queue) ELSE tick_queue
    /\ pc' = IF r.res = "ok" /\ Tail(tick_queue) = <<>> THEN "cleanup" ELSE pc

\* InstanceManager::tick: MapManager::tick of the next map; cleanup_maps after
\* the last one.  An Err ends main (`result?`).
MapTick ==
    /\ world = "running"
    /\ pc = "world"
    /\ tick_queue # <<>>
    /\ \E order \in Perms(Guids) : AfterMapTick(tick(World, Head(tick_queue), order))
    /\ UNCHANGED conn

\* Connection::run ends (socket error or close): the task sends
\* ClientEvent::Disconnected and drops the Receiver of its mailbox.
ConnectionClosed(addr) ==
    /\ world = "running"
    /\ conn[addr] = "open"
    /\ conn' = [conn EXCEPT ![addr] = "closed"]
    /\ outbox' = [c \in SocketAddrs |-> <<>>]
    /\ UNCHANGED <<clients, characters, world_maps, pc, tick_queue, world>>

NextWorld ==
    \/ CleanupDisconnectedClients /\ UNCHANGED <<auth_vars, conn_vars, inventory_vars>>
    \/ \E addr \in RealmAddrs : ClientConnected(addr) /\ UNCHANGED <<auth_vars, conn_vars, inventory_vars>>
    \/ \E addr \in RealmAddrs : ClientDisconnected(addr) /\ UNCHANGED <<auth_vars, conn_vars, inventory_vars>>
    \/ \E addr \in RealmAddrs, map \in MapIds, position \in Positions :
           PlayerLogin(addr, map, position) /\ UNCHANGED <<auth_vars, conn_vars, inventory_vars>>
    \/ \E addr \in RealmAddrs, position \in Positions :
           Movement(addr, position) /\ UNCHANGED <<auth_vars, conn_vars, inventory_vars>>
    \/ \E addr \in RealmAddrs : SetActionbarToggles(addr) /\ UNCHANGED <<auth_vars, conn_vars, inventory_vars>>
    \/ ClientsTick({}) /\ UNCHANGED <<auth_vars, conn_vars, inventory_vars>>
    \/ MapTick /\ UNCHANGED <<auth_vars, conn_vars, inventory_vars>>
    \/ \E addr \in RealmAddrs : ConnectionClosed(addr) /\ UNCHANGED <<auth_vars, conn_vars, inventory_vars>>

(***************************************************************************)
(* The main loop of the world server with the teleport packets: the        *)
(* characters of TeleportAddrs log in at LoginPosition and are teleported  *)
(* to TeleportPosition of either map, or to NearPosition of their map.     *)
(***************************************************************************)
LoginPosition == <<0, 0>>
TeleportPosition == <<4999, 0>>
NearPosition == <<5001, 0>>

\* The clients that connect.
TeleportAddrs == {1}

NextTeleport ==
    \/ CleanupDisconnectedClients /\ UNCHANGED <<auth_vars, conn_vars, inventory_vars>>
    \/ \E addr \in TeleportAddrs : ClientConnected(addr) /\ UNCHANGED <<auth_vars, conn_vars, inventory_vars>>
    \/ \E addr \in TeleportAddrs : ClientDisconnected(addr) /\ UNCHANGED <<auth_vars, conn_vars, inventory_vars>>
    \/ \E addr \in TeleportAddrs, map \in MapIds :
           PlayerLogin(addr, map, LoginPosition) /\ UNCHANGED <<auth_vars, conn_vars, inventory_vars>>
    \/ \E addr \in TeleportAddrs, map \in MapIds :
           WorldTeleport(addr, map, TeleportPosition) /\ UNCHANGED <<auth_vars, conn_vars, inventory_vars>>
    \/ \E addr \in TeleportAddrs : WorldportAck(addr) /\ UNCHANGED <<auth_vars, conn_vars, inventory_vars>>
    \/ \E addr \in TeleportAddrs :
           NearTeleport(addr, NearPosition) /\ UNCHANGED <<auth_vars, conn_vars, inventory_vars>>
    \/ \E addr \in TeleportAddrs : TeleportAck(addr) /\ UNCHANGED <<auth_vars, conn_vars, inventory_vars>>
    \/ \E due \in SUBSET TeleportAddrs : ClientsTick(due) /\ UNCHANGED <<auth_vars, conn_vars, inventory_vars>>
    \/ MapTick /\ UNCHANGED <<auth_vars, conn_vars, inventory_vars>>
    \/ \E addr \in TeleportAddrs : ConnectionClosed(addr) /\ UNCHANGED <<auth_vars, conn_vars, inventory_vars>>

(***************************************************************************)
(* The main loop of the world server with movement and teleports together: *)
(* two clients log in at LoginPosition of map 0, in range of each other;   *)
(* the character of client 1 is teleported, both send movement opcodes.    *)
(***************************************************************************)
MovePositions == {LoginPosition, TeleportPosition}

NextMove ==
    \/ CleanupDisconnectedClients /\ UNCHANGED <<auth_vars, conn_vars, inventory_vars>>
    \/ \E addr \in RealmAddrs : ClientConnected(addr) /\ UNCHANGED <<auth_vars, conn_vars, inventory_vars>>
    \/ \E addr \in RealmAddrs :
           PlayerLogin(addr, 0, LoginPosition) /\ UNCHANGED <<auth_vars, conn_vars, inventory_vars>>
    \/ \E addr \in TeleportAddrs, map \in MapIds :
           WorldTeleport(addr, map, TeleportPosition) /\ UNCHANGED <<auth_vars, conn_vars, inventory_vars>>
    \/ \E addr \in TeleportAddrs :
           NearTeleport(addr, NearPosition) /\ UNCHANGED <<auth_vars, conn_vars, inventory_vars>>
    \/ \E addr \in RealmAddrs, position \in MovePositions :
           Movement(addr, position) /\ UNCHANGED <<auth_vars, conn_vars, inventory_vars>>
    \/ \E addr \in TeleportAddrs : TeleportAck(addr) /\ UNCHANGED <<auth_vars, conn_vars, inventory_vars>>
    \/ \E addr \in TeleportAddrs : WorldportAck(addr) /\ UNCHANGED <<auth_vars, conn_vars, inventory_vars>>
    \/ ClientsTick({}) /\ UNCHANGED <<auth_vars, conn_vars, inventory_vars>>
    \/ MapTick /\ UNCHANGED <<auth_vars, conn_vars, inventory_vars>>

(***************************************************************************)
(* World server, the task of one connection (connection/mod.rs             *)
(* Connection::run / update, handlers/login_handler.rs                     *)
(* handle_cmsg_auth_session, packet.rs astd_send_to_connection).           *)
(*                                                                         *)
(* A Connection is the record [status, encryption, account_id, stream,     *)
(* open]: status is the position of its task ("none": not accepted yet,    *)
(* "handshake": SMSG_AUTH_CHALLENGE written, "loop": inside the race loop, *)
(* "ended": run returned, "panicked"), encryption is TRUE once set_crypto  *)
(* ran, stream is what the task wrote to the socket, open is FALSE once    *)
(* the TcpStream was dropped.  res is threaded as for the other handlers.  *)
(*                                                                         *)
(* The inbound half of the socket: a client message travels as two         *)
(* fragments, its header and its body.  sent counts the fragments the      *)
(* client wrote, socket holds the fragments that arrived and were not read *)
(* yet, read holds what the current receive_from_client future has read of *)
(* a message it has not completed, in_sync is FALSE once bytes of the      *)
(* stream were read and thrown away, forwarded lists the messages handed   *)
(* to the ClientManager (0: a message decoded from misframed bytes).       *)
(***************************************************************************)
MaxRealmConnections == 2
MaxClientEvents == 2
MaxStream == 6
MaxMessages == 2

RealmConnIds == 1..MaxRealmConnections
NoAccount == 0

\* What the auth database holds for the username of CMSG_AUTH_SESSION:
\* a 40 byte session key, no such account, a query error, a session key that
\* is not hex, a session key of another length.
AccountKinds == {"ok", "unknown", "db_err", "not_hex", "short_key"}

\* Connection::new.
NewConnection ==
    [status |-> "none", encryption |-> FALSE, account_id |-> NoAccount,
     stream |-> <<>>, open |-> TRUE, res |-> "ok",
     sent |-> 0, socket |-> <<>>, read |-> <<>>, in_sync |-> TRUE, forwarded |-> <<>>]

ClientEvent(ev, addr) == [ev |-> ev, addr |-> addr]

\* astd_send_to_connection: connection.encryption.as_mut().unwrap(), then the
\* encrypted write.
astd_send_to_connection(cn, message) ==
    IF ~cn.encryption THEN Panic(cn)
    ELSE [cn EXCEPT !.stream = Append(@, message)]

\* Connection::set_crypto.
set_crypto(cn) == [cn EXCEPT !.encryption = TRUE]

\* Lines 68-121: the replies to an accepted CMSG_AUTH_SESSION.
AcceptSession(cn, account_id) ==
    OnOk(astd_send_to_connection(cn, "SMSG_AUTH_RESPONSE AuthOk"), LAMBDA c1 :
    OnOk(astd_send_to_connection(c1, "SMSG_ADDON_INFO"), LAMBDA c2 :
    OnOk(astd_send_to_connection(c2, "SMSG_CLIENTCACHE_VERSION"), LAMBDA c3 :
    OnOk(astd_send_to_connection(c3, "SMSG_TUTORIAL_FLAGS"), LAMBDA c4 :
        [c4 EXCEPT !.account_id = account_id]))))

\* Lines 51-60: the proof check failed.  After the reply the handler sleeps
\* two seconds and bails.
RejectSession(cn) ==
    OnOk(astd_send_to_connection(cn, "SMSG_AUTH_RESPONSE AuthReject"), LAMBDA c1 : Err(c1))

\* handle_cmsg_auth_session, and Connection::update storing nothing but the
\* account id it returns.  proof_ok: ProofSeed::into_header_crypto accepts the
\* client proof.
handle_cmsg_auth_session(cn, account, proof_ok) ==
    IF cn.account_id # NoAccount THEN Err(cn)
    ELSE IF account \in {"db_err", "unknown", "not_hex"} THEN Err(cn)
    ELSE IF account = "short_key" THEN Panic(cn)
    ELSE IF ~proof_ok THEN RejectSession(cn)
    ELSE AcceptSession(set_crypto(cn), 1)

\* Connection::run after update ended: an Err is logged, then disconnect()
\* sends ClientEvent::Disconnected and the task ends, which drops the
\* TcpStream.  A panic unwinds the task at once, which drops it as well.
RunEnds(cn) ==
    [cn EXCEPT !.status = IF cn.res = "panic" THEN "panicked" ELSE "ended",
               !.open = FALSE, !.res = "ok"]

InitConn ==
    /\ realm_connections = [c \in RealmConnIds |-> NewConnection]
    /\ client_events = <<>>

EventsHaveRoom == Len(client_events) < MaxClientEvents

\* accept_realm_connections_impl spawns Connection::run, and update sends the
\* unencrypted SMSG_AUTH_CHALLENGE.
Accept(c) ==
    /\ realm_connections[c].status = "none"
    /\ realm_connections' = [realm_connections EXCEPT
           ![c].status = "handshake", ![c].stream = Append(@, "SMSG_AUTH_CHALLENGE")]
    /\ UNCHANGED client_events

\* The state the task of c is in once update went through the handshake as
\* cn, and the event it sent to the ClientManager.
AfterHandshake(c, cn) ==
    IF cn.res = "ok"
    THEN /\ realm_connections' = [realm_connections EXCEPT ![c] = [cn EXCEPT !.status = "loop"]]
         /\ client_events' = Append(client_events, ClientEvent("Connected", c))
    ELSE /\ realm_connections' = [realm_connections EXCEPT ![c] = RunEnds(cn)]
         /\ client_events' = IF cn.res = "err"
                             THEN Append(client_events, ClientEvent("Disconnected", c))
                             ELSE client_events

\* The client's CMSG_AUTH_SESSION arrives.
AuthSession(c, account, proof_ok) ==
    /\ realm_connections[c].status = "handshake"
    /\ EventsHaveRoom
    /\ AfterHandshake(c, handle_cmsg_auth_session(realm_connections[c], account, proof_ok))

\* The k-th fragment the client writes: the header, then the body, of
\* message (k + 1) \div 2.
Fragment(k) == [message |-> (k + 1) \div 2, part |-> IF k % 2 = 1 THEN "header" ELSE "body"]

\* The client writes the next fragment and it arrives at the socket.
ClientWrites(c) ==
    /\ realm_connections[c].status = "loop"
    /\ realm_connections[c].sent < 2 * MaxMessages
    /\ realm_connections' = [realm_connections EXCEPT
           ![c].sent = @ + 1,
           ![c].socket = Append(@, Fragment(realm_connections[c].sent + 1))]
    /\ UNCHANGED client_events

\* What the pending receive_from_client future has before it: the part it
\* read already and what waits in the socket.
Available(cn) == cn.read \o cn.socket

\* astd_read_encrypted can return: header and body are there.
MessageAvailable(cn) == cn.in_sync /\ Len(Available(cn)) >= 2

\* The race loop, ConnectionEvent::Client: receive_from_client completed a
\* message and the packet is forwarded.
ClientPacket(c) ==
    /\ realm_connections[c].status = "loop"
    /\ EventsHaveRoom
    /\ MessageAvailable(realm_connections[c])
    /\ realm_connections' = [realm_connections EXCEPT
           ![c].forwarded = Append(@, Available(realm_connections[c])[1].message),
           ![c].socket = SubSeq(Available(realm_connections[c]), 3,
                                Len(Available(realm_connections[c]))),
           ![c].read = <<>>]
    /\ client_events' = Append(client_events, ClientEvent("Message", c))

\* receive_from_client is polled with the header there and the body not:
\* read_exact takes the header off the socket, the decrypter decrypts it, and
\* the future waits for the body.
PartialRead(c) ==
    /\ realm_connections[c].status = "loop"
    /\ realm_connections[c].in_sync
    /\ realm_connections[c].read = <<>>
    /\ Len(realm_connections[c].socket) = 1
    /\ realm_connections' = [realm_connections EXCEPT
           ![c].read = realm_connections[c].socket, ![c].socket = <<>>]
    /\ UNCHANGED client_events

\* receive_from_client on a stream that lost bytes: what arrives is decoded
\* from the wrong offset and with the wrong decrypter state.
MisframedPacket(c) ==
    /\ realm_connections[c].status = "loop"
    /\ EventsHaveRoom
    /\ ~realm_connections[c].in_sync
    /\ realm_connections[c].socket # <<>>
    /\ realm_connections' = [realm_connections EXCEPT
           ![c].forwarded = Append(@, 0), ![c].socket = Tail(@)]
    /\ client_events' = Append(client_events, ClientEvent("Message", c))

\* smol::future::race returned the ServerEvent: receive_from_client was
\* polled first and is dropped with whatever it read of the next message.
DropRead(cn) ==
    [cn EXCEPT !.read = <<>>,
               !.socket = IF cn.in_sync THEN <<>> ELSE @,
               !.in_sync = cn.in_sync /\ Available(cn) = <<>>]

\* The state the task of c is in once the loop wrote a ServerEvent as cn.
AfterWrite(c, cn) ==
    /\ realm_connections' = [realm_connections EXCEPT ![c] =
           IF cn.res = "ok" THEN cn ELSE RunEnds(cn)]
    /\ client_events' = IF cn.res = "err"
                        THEN Append(client_events, ClientEvent("Disconnected", c))
                        ELSE client_events

\* The race loop, ConnectionEvent::Server with a message to write.
ServerMessage(c) ==
    /\ realm_connections[c].status = "loop"
    /\ EventsHaveRoom
    /\ Len(realm_connections[c].stream) < MaxStream
    /\ ~MessageAvailable(realm_connections[c])
    /\ AfterWrite(c, astd_send_to_connection(DropRead(realm_connections[c]), "SMSG_PONG"))

\* The loop ends: ServerEvent::Disconnect (break), or a read or write on the
\* socket fails (`?`).  Either way run goes on to disconnect().
LoopEnds(c) ==
    /\ realm_connections[c].status \in {"handshake", "loop"}
    /\ EventsHaveRoom
    /\ realm_connections' = [realm_connections EXCEPT ![c] = RunEnds(@)]
    /\ client_events' = Append(client_events, ClientEvent("Disconnected", c))

\* ClientManager::handle_connection_events takes the next event.
TakeEvent ==
    /\ client_events # <<>>
    /\ client_events' = Tail(client_events)
    /\ UNCHANGED realm_connections

NextConn ==
    \/ \E c \in RealmConnIds : Accept(c) /\ UNCHANGED <<auth_vars, world_vars, inventory_vars>>
    \/ \E c \in RealmConnIds, account \in AccountKinds, proof_ok \in BOOLEAN :
           AuthSession(c, account, proof_ok) /\ UNCHANGED <<auth_vars, world_vars, inventory_vars>>
    \/ \E c \in RealmConnIds : ClientWrites(c) /\ UNCHANGED <<auth_vars, world_vars, inventory_vars>>
    \/ \E c \in RealmConnIds : ClientPacket(c) /\ UNCHANGED <<auth_vars, world_vars, inventory_vars>>
    \/ \E c \in RealmConnIds : PartialRead(c) /\ UNCHANGED <<auth_vars, world_vars, inventory_vars>>
    \/ \E c \in RealmConnIds : MisframedPacket(c) /\ UNCHANGED <<auth_vars, world_vars, inventory_vars>>
    \/ \E c \in RealmConnIds : ServerMessage(c) /\ UNCHANGED <<auth_vars, world_vars, inventory_vars>>
    \/ \E c \in RealmConnIds : LoopEnds(c) /\ UNCHANGED <<auth_vars, world_vars, inventory_vars>>
    \/ TakeEvent /\ UNCHANGED <<auth_vars, world_vars, inventory_vars>>


(***************************************************************************)
(* World server, the inventory of one Character                            *)
(* (character/character_inventory.rs).                                     *)
(*                                                                         *)
(* An Item is the record [object_guid, inventory_type]; an object guid is  *)
(* the record [high, low] of the upper and the lower 32 bits of the u64.   *)
(* The handlers thread the record [equipped, bag, field_inv, res].         *)
(***************************************************************************)
\* EquipmentSlot: Head (0), Finger1 (10), Finger2 (11).
EquipmentSlots == {0, 10, 11}
\* BagSlot: Item1 (23), Item2 (24), in the order of the loop of
\* try_add_item_to_backpack.
BagSlots == <<23, 24>>
BagSlotSet == {BagSlots[i] : i \in DOMAIN BagSlots}
InventoryTypes == {"Head", "Finger"}

\* The low 32 bits of the guid of the Character (get_guid().guid() as u32).
CharacterId == 1

\* ((character_id as u64) << 32 | slot as u64).into(): character_id is a u32
\* and fills the upper half, slot is a u8 and lies in the lower half.
ItemGuid(character_id, slot) == [high |-> character_id, low |-> slot % 256]
ZeroGuid == [high |-> 0, low |-> 0]

NoItem == [object_guid |-> ZeroGuid, inventory_type |-> "None"]
NewItem(inventory_type) == [object_guid |-> ZeroGuid, inventory_type |-> inventory_type]

get_compatible_equipment_slots_for_inventory_type(inventory_type) ==
    IF inventory_type = "Head" THEN <<0>>
    ELSE IF inventory_type = "Finger" THEN <<10, 11>>
    ELSE <<>>

\* The first element of slots that is not in taken; NoSlot when there is none.
NoSlot == 255
RECURSIVE FirstVacant(_, _)
FirstVacant(slots, taken) ==
    IF slots = <<>> THEN NoSlot
    ELSE IF Head(slots) \notin taken THEN Head(slots)
    ELSE FirstVacant(Tail(slots), taken)

\* CharacterInventory::try_insert_item.
try_insert_item(inv, item) ==
    IF FirstVacant(get_compatible_equipment_slots_for_inventory_type(item.inventory_type),
                   DOMAIN inv.equipped) = NoSlot
    THEN Err(inv)
    ELSE [inv EXCEPT !.equipped =
             MapInsert(@, FirstVacant(
                              get_compatible_equipment_slots_for_inventory_type(
                                  item.inventory_type),
                              DOMAIN inv.equipped), item)]

\* CharacterInventory::take_item.
take_item(inv, slot) ==
    [inv EXCEPT !.equipped = [s \in DOMAIN inv.equipped \ {slot} |-> inv.equipped[s]]]

\* Character::set_item_guid.
set_item_guid(item, guid) == [item EXCEPT !.object_guid = guid]

\* Character::update_inventory_field.
update_inventory_field(inv, slot, guid) == [inv EXCEPT !.field_inv[slot] = guid]

\* Character::set_equipment_item; item = NoItem stands for None.
set_equipment_item(inv, item, slot, character_id) ==
    IF item # NoItem
    THEN try_insert_item(
             update_inventory_field(take_item(inv, slot), slot, ItemGuid(character_id, slot)),
             set_item_guid(item, ItemGuid(character_id, slot)))
    ELSE update_inventory_field(take_item(inv, slot), slot, ZeroGuid)

\* Character::set_bag_item.
set_bag_item(inv, item, slot, character_id) ==
    IF item # NoItem
    THEN [update_inventory_field(inv, slot, ItemGuid(character_id, slot)) EXCEPT
             !.bag[slot] = set_item_guid(item, ItemGuid(character_id, slot))]
    ELSE [update_inventory_field(inv, slot, ZeroGuid) EXCEPT !.bag[slot] = NoItem]

\* Character::set_item with bag = INVENTORY_SLOT_BAG_0.
set_item(inv, item, slot) ==
    IF slot \in EquipmentSlots THEN set_equipment_item(inv, item, slot, CharacterId)
    ELSE IF slot \in BagSlotSet THEN set_bag_item(inv, item, slot, CharacterId)
    ELSE Panic(inv)

\* Lines 376-383 of auto_equip_item_from_bag: the first empty compatible
\* slot, or else the first compatible slot.
TargetSlot(inv, possible_slots) ==
    IF FirstVacant(possible_slots, DOMAIN inv.equipped) # NoSlot
    THEN FirstVacant(possible_slots, DOMAIN inv.equipped)
    ELSE IF possible_slots # <<>> THEN Head(possible_slots)
    ELSE NoSlot

\* Character::auto_equip_item_from_bag.
auto_equip_item_from_bag(inv, slot) ==
    IF slot \notin BagSlotSet THEN Err(inv)
    ELSE IF inv.bag[slot] = NoItem THEN Err(inv)
    ELSE IF TargetSlot(inv, get_compatible_equipment_slots_for_inventory_type(
                                inv.bag[slot].inventory_type)) = NoSlot
    THEN Err([inv EXCEPT !.bag[slot] = NoItem])
    ELSE set_item([inv EXCEPT !.bag[slot] = NoItem], inv.bag[slot],
                  TargetSlot(inv, get_compatible_equipment_slots_for_inventory_type(
                                      inv.bag[slot].inventory_type)))

\* Character::try_add_item_to_backpack: the loop over Item1..=Item16 from
\* the slot slots[1] on.  The Err or Ok of set_item is not passed on.
RECURSIVE AddToBackpack(_, _, _)
AddToBackpack(inv, slots, inventory_type) ==
    IF slots = <<>> THEN inv
    ELSE IF inv.bag[Head(slots)] # NoItem
    THEN AddToBackpack(inv, Tail(slots), inventory_type)
    ELSE IF set_item(inv, set_item_guid(NewItem(inventory_type),
                                        ItemGuid(CharacterId, Head(slots))),
                     Head(slots)).res = "ok"
    THEN set_item(inv, set_item_guid(NewItem(inventory_type),
                                     ItemGuid(CharacterId, Head(slots))), Head(slots))
    ELSE AddToBackpack(
             [set_item(inv, set_item_guid(NewItem(inventory_type),
                                          ItemGuid(CharacterId, Head(slots))),
                       Head(slots)) EXCEPT !.res = "ok"],
             Tail(slots), inventory_type)

try_add_item_to_backpack(inv, inventory_type) == AddToBackpack(inv, BagSlots, inventory_type)

\* Character::new: both inventories are empty.
InitInventory ==
    /\ equipped_items = EmptyMap
    /\ bag_items = [s \in BagSlotSet |-> NoItem]
    /\ player_field_inv = [s \in EquipmentSlots \cup BagSlotSet |-> ZeroGuid]

Inventory ==
    [equipped |-> equipped_items, bag |-> bag_items, field_inv |-> player_field_inv,
     res |-> "ok"]

\* What a call leaves behind, however it ended.
CommitInventory(r) ==
    /\ equipped_items' = r.equipped
    /\ bag_items' = r.bag
    /\ player_field_inv' = r.field_inv

SetItem(item, slot) == CommitInventory(set_item(Inventory, item, slot))

AutoEquipItemFromBag(slot) == CommitInventory(auto_equip_item_from_bag(Inventory, slot))

TryAddItemToBackpack(inventory_type) ==
    CommitInventory(try_add_item_to_backpack(Inventory, inventory_type))

NextInventory ==
    \/ \E inventory_type \in InventoryTypes :
           TryAddItemToBackpack(inventory_type)
               /\ UNCHANGED <<auth_vars, world_vars, conn_vars>>
    \/ \E slot \in BagSlotSet :
           AutoEquipItemFromBag(slot) /\ UNCHANGED <<auth_vars, world_vars, conn_vars>>
    \/ \E slot \in EquipmentSlots \cup BagSlotSet :
           SetItem(NoItem, slot) /\ UNCHANGED <<auth_vars, world_vars, conn_vars>>
    \/ \E inventory_type \in InventoryTypes, slot \in EquipmentSlots \cup BagSlotSet :
           SetItem(NewItem(inventory_type), slot)
               /\ UNCHANGED <<auth_vars, world_vars, conn_vars>>

Init == InitAuth /\ InitWorld /\ InitConn /\ InitInventory

SpecAuth == Init /\ [][NextAuth]_vars

SpecWorld == Init /\ [][NextWorld]_vars

SpecConn == Init /\ [][NextConn]_vars

SpecTeleport == Init /\ [][NextTeleport]_vars

SpecInventory == Init /\ [][NextInventory]_vars

SpecMove == Init /\ [][NextMove]_vars

(***************************************************************************)
(* The world server with a client that comes back: the connection of a     *)
(* client ends and the same account logs its character in again on a new   *)
(* connection, while another client plays on the same map.                 *)
(***************************************************************************)
NextRelog ==
    \/ CleanupDisconnectedClients /\ UNCHANGED <<auth_vars, conn_vars, inventory_vars>>
    \/ \E addr \in SocketAddrs : ClientConnected(addr) /\ UNCHANGED <<auth_vars, conn_vars, inventory_vars>>
    \/ \E addr \in SocketAddrs : ClientDisconnected(addr) /\ UNCHANGED <<auth_vars, conn_vars, inventory_vars>>
    \/ \E addr \in SocketAddrs, character_guid \in Guids :
           PlayerLoginAs(addr, character_guid, 0, LoginPosition)
               /\ UNCHANGED <<auth_vars, conn_vars, inventory_vars>>
    \/ ClientsTick({}) /\ UNCHANGED <<auth_vars, conn_vars, inventory_vars>>
    \/ MapTick /\ UNCHANGED <<auth_vars, conn_vars, inventory_vars>>
    \/ \E addr \in SocketAddrs : ConnectionClosed(addr) /\ UNCHANGED <<auth_vars, conn_vars, inventory_vars>>

SpecRelog == Init /\ [][NextRelog]_vars

(***************************************************************************)
(* The world server with clients that log out and disconnect.  A client    *)
(* asks to log out only while it plays a character.  The main loop         *)
(* (main.rs) never stops ticking while it runs: it always goes on from the *)
(* phase it is in to the next one, while nothing obliges a client to send  *)
(* anything.                                                               *)
(***************************************************************************)
\* The main loop leaves the phase it is in.
MainLoopGoesOn == world = "running" /\ pc' \in {"cleanup", "events", "world"}

EngineStep ==
    \/ CleanupDisconnectedClients /\ UNCHANGED <<auth_vars, conn_vars, inventory_vars>>
    \/ ClientsTick({}) /\ UNCHANGED <<auth_vars, conn_vars, inventory_vars>>
    \/ MapTick /\ UNCHANGED <<auth_vars, conn_vars, inventory_vars>>

NextLogout ==
    \/ EngineStep
    \/ \E addr \in RealmAddrs : ClientConnected(addr) /\ UNCHANGED <<auth_vars, conn_vars, inventory_vars>>
    \/ \E addr \in RealmAddrs : ClientDisconnected(addr) /\ UNCHANGED <<auth_vars, conn_vars, inventory_vars>>
    \/ \E addr \in RealmAddrs :
           PlayerLogin(addr, 0, LoginPosition) /\ UNCHANGED <<auth_vars, conn_vars, inventory_vars>>
    \/ \E addr \in RealmAddrs :
           /\ addr \in DOMAIN clients
           /\ clients[addr].active_character # NoGuid
           /\ LogoutRequest(addr) /\ UNCHANGED <<auth_vars, conn_vars, inventory_vars>>
    \/ \E addr \in RealmAddrs : ConnectionClosed(addr) /\ UNCHANGED <<auth_vars, conn_vars, inventory_vars>>

SpecLogout == Init /\ [][NextLogout]_vars /\ WF_pc(MainLoopGoesOn)

Next == NextAuth \/ NextWorld \/ NextTeleport \/ NextMove \/ NextRelog \/ NextLogout \/ NextConn
           \/ NextInventory

Spec == Init /\ [][Next]_vars

(***************************************************************************)
(* Claims about the auth session manager.                                  *)
(***************************************************************************)
Count(seq, ev) == Cardinality({i \in 1..Len(seq) : seq[i] = ev})
Last(seq) == seq[Len(seq)]

\* C1: whenever the manager is running, every entry authenticated_addresses[u] = addr
\* points to an existing session record whose state is Authenticated (LogOnProof)
\* and whose Authentication carries username u.
C1_IndexPointsToAuthenticatedSession ==
    manager = "running" =>
        \A u \in DOMAIN authenticated_addresses :
            LET addr == authenticated_addresses[u]
            IN  /\ addr \in DOMAIN connected_clients
                /\ connected_clients[addr].state = LogOnProof
                /\ connected_clients[addr].authentication.username = u

\* p1 holds the authenticated session of username u.
HoldsSession(p1, u) ==
    /\ u \in DOMAIN authenticated_addresses
    /\ authenticated_addresses[u] = p1
    /\ p1 \in DOMAIN connected_clients
    /\ connected_clients[p1].state = LogOnProof
    /\ connected_clients[p1].authentication.username = u

\* addr has a session record whose connection task is still running.
LiveSession(addr) ==
    /\ addr \in DOMAIN connected_clients
    /\ receiver_alive[connected_clients[addr].sender]

\* C2: when P2 completes a successful LogonProof for a username whose authenticated
\* session is held by another connection P1, P1's mailbox receives exactly one
\* Disconnect, P1's record is removed, authenticated_addresses[u] = P2 and P2's
\* session stays Authenticated.
C2_DuplicateLoginDisplacesEarlier ==
    [][\A p1, p2 \in Addrs, u \in Usernames :
          ( /\ p1 # p2
            /\ HoldsSession(p1, u)
            /\ LiveSession(p2)
            /\ connected_clients[p2].state = ChallengeProof(u)
            /\ LogonProof(p2, TRUE, TRUE, TRUE) )
          => LET c1 == connected_clients[p1].sender
             IN  /\ Count(mailbox[c1], Disconnect) = 0
                 /\ mailbox'[c1] = Append(mailbox[c1], Disconnect)
                 /\ p1 \notin DOMAIN connected_clients'
                 /\ u \in DOMAIN authenticated_addresses'
                 /\ authenticated_addresses'[u] = p2
                 /\ p2 \in DOMAIN connected_clients'
                 /\ connected_clients'[p2].state = LogOnProof
      ]_vars

\* C3: after a ReconnectProof from P2 that verifies against the Authentication held
\* by session P1 for username u, P2 is sent Success, P2 is Authenticated and owns
\* the Authentication, P1 no longer owns it, and authenticated_addresses[u] = P2.
C3_ReconnectMovesOwnership ==
    [][\A p1, p2 \in Addrs, u \in Usernames :
          ( /\ p1 # p2
            /\ HoldsSession(p1, u)
            /\ LiveSession(p2)
            /\ connected_clients[p2].state = ReconnectProof(u)
            /\ ReconnectProofMsg(p2, TRUE) )
          => /\ Last(mailbox'[connected_clients[p2].sender])
                    = Event("AuthReconnectProof", "Success")
             /\ p2 \in DOMAIN connected_clients'
             /\ connected_clients'[p2].state = LogOnProof
             /\ connected_clients'[p2].authentication = connected_clients[p1].authentication
             /\ p1 \notin DOMAIN connected_clients'
             /\ u \in DOMAIN authenticated_addresses'
             /\ authenticated_addresses'[u] = p2
      ]_vars

\* C7: a ReconnectChallenge for a username without authenticated_addresses entry
\* sends exactly one reply, FailUnknown0, to the requesting address, leaves that
\* session's state as it was, and the manager goes on running.
C7_ReconnectChallengeUnknownUser ==
    [][\A addr \in Addrs, u \in Usernames :
          ( /\ u \notin DOMAIN authenticated_addresses
            /\ LiveSession(addr)
            /\ ReconnectChallenge(addr, u) )
          => /\ mailbox' = [mailbox EXCEPT ![connected_clients[addr].sender] =
                               Append(@, Event("AuthReconnectChallenge", "FailUnknown0"))]
             /\ connected_clients' = connected_clients
             /\ manager' = "running"
      ]_vars

\* C8: a LogonProof that fails SRP verification is answered FailIncorrectPassword
\* and the client is not disconnected: no Disconnect is enqueued for it and its
\* session record is kept.
C8_WrongPasswordKeepsSession ==
    [][\A addr \in Addrs, u \in Usernames, db_ok \in BOOLEAN :
          ( /\ LiveSession(addr)
            /\ connected_clients[addr].state = ChallengeProof(u)
            /\ LogonProof(addr, TRUE, FALSE, db_ok) )
          => /\ mailbox'[connected_clients[addr].sender]
                    = Append(mailbox[connected_clients[addr].sender],
                             Event("AuthLogonProof", "FailIncorrectPassword"))
             /\ addr \in DOMAIN connected_clients'
      ]_vars

(***************************************************************************)
(* Claims about the map tick.                                              *)
(***************************************************************************)
InSeq(ev, seq) == \E i \in 1..Len(seq) : seq[i] = ev

\* The characters on map id once the running step is over.
OnMapAfter(id) ==
    IF id \in DOMAIN world_maps' THEN world_maps'[id].characters_on_map ELSE {}

\* A MapManager::tick that returned Ok.
MapTickDone == MapTick /\ world' = "running"

\* The squared XY distance of two characters.
SquaredDistance(a, b) ==
    distance_2(RStarTreeItem(a, characters[a].position), characters[b].position)

\* C4: two characters on the same map whose XY distance is at most
\* VISIBILITY_RANGE are in each other's interest sets after one map tick in
\* which both are on the map with a position.
C4_InRangeAfterOneTick ==
    [][MapTickDone =>
          \A a, b \in Guids :
              ( /\ a # b
                /\ {a, b} \subseteq OnMapAfter(Head(tick_queue))
                /\ characters[a].position # NoPosition
                /\ characters[b].position # NoPosition
                /\ SquaredDistance(a, b) <= VISIBILITY_RANGE * VISIBILITY_RANGE )
              => ( /\ b \in characters'[a].in_range
                   /\ a \in characters'[b].in_range )]_vars

\* C5: when two characters that are in each other's interest sets are found
\* out of range at a map tick, each of the two receives a destroy-object
\* message naming the other character's guid, never its own, and after the
\* tick neither interest set contains the other.
C5_DestroyNamesTheOther ==
    [][MapTickDone =>
          \A a, b \in Guids :
              ( /\ a # b
                /\ {a, b} \subseteq world_maps[Head(tick_queue)].characters_on_map
                /\ {a, b} \subseteq OnMapAfter(Head(tick_queue))
                /\ b \in characters[a].in_range
                /\ a \in characters[b].in_range
                /\ SquaredDistance(a, b) > VISIBILITY_RANGE * VISIBILITY_RANGE )
              => ( /\ InSeq(DestroyObject(b), outbox'[characters[a].connection_sender])
                   /\ ~InSeq(DestroyObject(a), outbox'[characters[a].connection_sender])
                   /\ b \notin characters'[a].in_range
                   /\ a \notin characters'[b].in_range )]_vars

\* C6: at the end of every map tick, for all characters A and B on the map,
\* B is in A's interest set if and only if A is in B's, and no character is
\* in its own interest set.
C6_InterestSetsSymmetric ==
    [][MapTickDone =>
          \A a, b \in OnMapAfter(Head(tick_queue)) :
              /\ (b \in characters'[a].in_range <=> a \in characters'[b].in_range)
              /\ a \notin characters'[a].in_range]_vars

\* A map tick has just ended with two characters of one map in each other's
\* interest sets.
C6_Witness ==
    /\ world = "running"
    /\ pc = "cleanup"
    /\ \E id \in DOMAIN world_maps :
           \E a, b \in world_maps[id].characters_on_map :
               /\ a # b
               /\ b \in characters[a].in_range
               /\ a \in characters[b].in_range

(***************************************************************************)
(* Claims about the realm session manager and the connection tasks.        *)
(***************************************************************************)
\* C9: a movement opcode from an authenticated realm client that is in
\* CharacterSelection with no active character is dropped with a state
\* error: no character or map state changes, nothing is broadcast, the
\* client is not disconnected, and the realm manager keeps running.
C9_MovementWithoutCharacterIsDropped ==
    [][\A addr \in RealmAddrs, position \in Positions :
          ( /\ addr \in DOMAIN clients
            /\ clients[addr].client_state = "CharacterSelection"
            /\ clients[addr].active_character = NoGuid
            /\ Movement(addr, position) )
          => ( /\ UNCHANGED <<characters, world_maps, clients, conn>>
               /\ \A c \in RealmAddrs : outbox'[c] = <<>>
               /\ world' = "running" )]_vars

\* C10: when CMSG_AUTH_SESSION fails the proof check on a realm connection,
\* the client is sent SMSG_AUTH_RESPONSE{AuthReject} and the connection is
\* then closed; crypto is never installed for that connection and no
\* Connected event for it reaches the session manager.
C10_FailedProofIsRejected ==
    [][\A c \in RealmConnIds :
          AuthSession(c, "ok", FALSE)
          => ( /\ InSeq("SMSG_AUTH_RESPONSE AuthReject", realm_connections'[c].stream)
               /\ ~realm_connections'[c].open
               /\ ~realm_connections'[c].encryption
               /\ ~InSeq(ClientEvent("Connected", c), client_events') )]_vars

\* C11: every client message that is completely received on a connection is
\* forwarded to the manager exactly once and in on-wire order: while the task
\* is in its loop, the messages forwarded are exactly the messages whose
\* fragments have all been taken off the socket, in the order they were sent.
C11_ForwardedOnceInOrder ==
    \A c \in RealmConnIds :
        LET cn == realm_connections[c]
        IN  cn.status = "loop" =>
                cn.forwarded = [i \in 1..((cn.sent - Len(cn.socket)) \div 2) |-> i]

\* The task of auth connection c ends in this step.
AuthActorStops(c) == receiver_alive[c] /\ ~receiver_alive'[c]

\* Connection::run of realm connection c returns in this step.
RealmActorStops(c) ==
    /\ realm_connections[c].status \in {"handshake", "loop"}
    /\ realm_connections'[c].status = "ended"

\* C12: whenever a per-connection actor stops (a socket read or write fails,
\* its mailbox is closed, or it receives Disconnect), the session manager is
\* sent Disconnected for it exactly once, after every Message the actor
\* forwarded; for the auth actor as well as for the realm actor.
C12_StoppedActorSendsDisconnected ==
    [][ /\ \A c \in ConnIds : AuthActorStops(c) => "Disconnected" \in SentOnExit
        /\ \A c \in RealmConnIds :
               RealmActorStops(c) =>
                   client_events' = Append(client_events, ClientEvent("Disconnected", c))
      ]_vars


\* The maps whose characters_on_map holds guid.
MapsHolding(maps, guid) == {id \in DOMAIN maps : guid \in maps[id].characters_on_map}

\* handle_msg_move_worldport_ack runs for the client addr, whose active
\* character is on the map of its map field and in Executing(Far(..)).
WorldportAckOfExecuting(addr) ==
    /\ WorldportAck(addr)
    /\ addr \in DOMAIN clients
    /\ clients[addr].active_character \in DOMAIN characters
    /\ IsExecutingFar(characters[clients[addr].active_character].teleportation_state)
    /\ characters[clients[addr].active_character].map
           \in MapsHolding(world_maps, clients[addr].active_character)

\* A world tick ends: the last map was ticked.
WorldTickEnds == pc = "world" /\ pc' = "cleanup" /\ world' = "running"

\* C13: when MSG_MOVE_WORLDPORT_ACK is handled for a character in
\* Executing(Far{map m, position p}) that was on map m0, the character is
\* removed from m0 (queued for removal there) and added to m (queued for
\* insertion there), its map is m, its position is p, its time sync counter
\* is reset and its teleport state is None; and when a world tick has ended
\* a character is on no map other than the one its map field names.
C13_WorldportAckMovesCharacter ==
    [][ /\ \A addr \in RealmAddrs :
               WorldportAckOfExecuting(addr) =>
                   LET g == clients[addr].active_character
                       m0 == characters[g].map
                       destination == characters[g].teleportation_state.dist
                   IN  /\ g \in DOMAIN characters'
                       /\ characters'[g].map = destination.map
                       /\ characters'[g].position = destination.position
                       /\ characters'[g].time_sync_counter = 0
                       /\ characters'[g].teleportation_state = TeleportNone
                       /\ destination.map \in DOMAIN world_maps'
                       /\ InSeq(g, world_maps'[destination.map].add_queue)
                       /\ m0 # destination.map =>
                              InSeq(g, world_maps'[m0].remove_queue)
        /\ WorldTickEnds =>
               \A g \in DOMAIN characters' :
                   MapsHolding(world_maps', g) \subseteq {characters'[g].map} ]_vars

\* MapManager::tick of the map id up to the step of the character that the
\* loop over characters_on_map yields first, and that step's
\* update_in_range_set.
BeforeUpdateBlocks(w, id, guid) ==
    OnOk(rebuild_object_querying_tree(w, id), LAMBDA w1 :
    OnOk(process_remove_queue(w1, id), LAMBDA w2 :
    OnOk(process_add_queue(w2, id), LAMBDA w3 :
        IF guid \in w3.maps[id].characters_on_map
        THEN update_in_range_set(w3, id, guid)
        ELSE Err(w3))))

OutOfRangeBlocks(pending) ==
    Cardinality({i \in DOMAIN pending : pending[i].kind = "out_of_range"})

\* before, after: the world before and after the lines 76-111 of the step of
\* guid.
OutOfRangeBlockAppended(before, after, guid) ==
    /\ after.res = "ok"
    /\ after.chars[guid].recently_removed = {}
    /\ OutOfRangeBlocks(after.chars[guid].pending)
           = OutOfRangeBlocks(before.chars[guid].pending) + 1
    /\ Block("out_of_range", NoGuid, before.chars[guid].recently_removed)
           \in {after.chars[guid].pending[i] : i \in DOMAIN after.chars[guid].pending}

RecentlyRemovedAtStep(w, guid) ==
    w.res = "ok" /\ w.chars[guid].recently_removed # {}

StepAppendsOutOfRangeBlock(w, guid, any_removed, any_added) ==
    RecentlyRemovedAtStep(w, guid) =>
        OutOfRangeBlockAppended(w, UpdateBlocks(w, guid, any_removed, any_added), guid)

\* C14: at a character's step of the map tick, if its recently-removed list
\* is not empty then exactly one out-of-range block is appended to its own
\* pending queue and the list is cleared, whether or not the character has
\* dirty fields and whether or not a character was added to or removed from
\* the map in that tick.
C14_RecentlyRemovedGivesOutOfRangeBlock ==
    (world = "running" /\ pc = "world" /\ tick_queue # <<>>) =>
        \A guid \in Guids :
            StepAppendsOutOfRangeBlock(
                BeforeUpdateBlocks(World, Head(tick_queue), guid), guid,
                world_maps[Head(tick_queue)].remove_queue # <<>>,
                world_maps[Head(tick_queue)].add_queue # <<>>)

\* The part of the sequence order before guid.
Before(order, guid) ==
    SubSeq(order, 1, Cardinality({i \in DOMAIN order :
                                     \A j \in 1..i : order[j] # guid}))

\* MapManager::tick of the map id up to the step of guid, the loop yielding
\* characters_on_map in the given order, and that step's
\* update_in_range_set.
StepOf(w, id, order, guid) ==
    OnOk(rebuild_object_querying_tree(w, id), LAMBDA w1 :
    OnOk(process_remove_queue(w1, id), LAMBDA w2 :
    OnOk(process_add_queue(w2, id), LAMBDA w3 :
        IF guid \in w3.maps[id].characters_on_map
        THEN OnOk(TickCharacters(
                      w3, id,
                      Before(SeqFilter(order, w3.maps[id].characters_on_map), guid),
                      w.maps[id].remove_queue # <<>>, w.maps[id].add_queue # <<>>),
                  LAMBDA w4 : update_in_range_set(w4, id, guid))
        ELSE Err(w3))))

\* The values-update blocks of guid in a pending queue.
ValuesBlocks(pending, guid) ==
    Cardinality({i \in DOMAIN pending : pending[i] = Block("values", guid, {})})

\* before, after: the world before and after the lines 76-111 of the step of
\* guid.
ValuesUpdateFlushed(before, after, guid) ==
    IF before.chars[guid].dirty
    THEN /\ after.res = "ok"
         /\ ~after.chars[guid].dirty
         /\ \A c \in DOMAIN before.chars :
                ValuesBlocks(after.chars[c].pending, guid)
                    = ValuesBlocks(before.chars[c].pending, guid)
                      + (IF c = guid \/ c \in before.chars[guid].in_range THEN 1 ELSE 0)
    ELSE /\ after.res = "ok"
         /\ \A c \in DOMAIN before.chars :
                ValuesBlocks(after.chars[c].pending, guid)
                    = ValuesBlocks(before.chars[c].pending, guid)

StepFlushesValuesUpdate(w, guid, any_removed, any_added) ==
    w.res = "ok" =>
        ValuesUpdateFlushed(w, UpdateBlocks(w, guid, any_removed, any_added), guid)

\* C15: at a character's step of the map tick, if its update mask has a
\* dirty field then one values-update block is appended to its own pending
\* queue and to the pending queue of every character in its interest set,
\* and afterwards its dirty mask is empty; if no field is dirty, no
\* values-update block is produced.
C15_DirtyFieldsGiveValuesUpdate ==
    (world = "running" /\ pc = "world" /\ tick_queue # <<>>) =>
        \A guid \in Guids, order \in Perms(Guids) :
            StepFlushesValuesUpdate(
                StepOf(World, Head(tick_queue), order, guid), guid,
                world_maps[Head(tick_queue)].remove_queue # <<>>,
                world_maps[Head(tick_queue)].add_queue # <<>>)

\* A map tick has sent the character c the values update of another
\* character g, whose dirty mask is empty now.
C15_Witness ==
    \E c \in RealmAddrs, g \in DOMAIN characters :
        /\ c # characters[g].connection_sender
        /\ ~characters[g].dirty
        /\ \E i \in DOMAIN outbox[c] :
               /\ outbox[c][i].ev = "UpdateObject"
               /\ InSeq(Block("values", g, {}), outbox[c][i].objects)

\* C16: after any sequence of set_item, auto_equip_item_from_bag and
\* try_add_item_to_backpack operations on a character, every item held in an
\* equipment or bag cell s has object_guid = (character_id << 32) | s, s being
\* the cell the item is stored in.
C16_ItemGuidNamesItsCell ==
    /\ \A s \in DOMAIN equipped_items :
           equipped_items[s].object_guid = ItemGuid(CharacterId, s)
    /\ \A s \in BagSlotSet :
           bag_items[s] # NoItem => bag_items[s].object_guid = ItemGuid(CharacterId, s)

\* The record of the client addr is removed from ClientManager.clients.
ClientRecordRemoved(addr) == addr \in DOMAIN clients /\ addr \notin DOMAIN clients'

\* C17: once the two-stage cleanup of a disconnected realm client has removed
\* the client record, the character manager holds no Character of that
\* client (none whose connection_sender is the client's).
C17_CharacterGoesWithItsClient ==
    [][ \A addr \in RealmAddrs :
            ClientRecordRemoved(addr) =>
                \A g \in DOMAIN characters' : characters'[g].connection_sender # addr ]_vars

\* A cleanup pass: ClientManager::cleanup_disconnected_clients ran.
CleanupPass == CleanupDisconnectedClients

\* The guid of the active character of addr is on the remove queue of the
\* map the character is on, once the running step is over.
RemovalEnqueued(addr) ==
    clients[addr].active_character # NoGuid =>
        /\ clients[addr].active_character \in DOMAIN characters
        /\ characters[clients[addr].active_character].map \in DOMAIN world_maps'
        /\ InSeq(clients[addr].active_character,
                 world_maps'[characters[clients[addr].active_character].map].remove_queue)

\* The client_state of addr, "Removed" when clients holds no record of addr.
StateIn(cl, addr) == IF addr \in DOMAIN cl THEN cl[addr].client_state ELSE "Removed"

\* C18: after the manager processes Disconnected{addr} for a known client
\* the client is in DisconnectPendingCleanup; the one cleanup pass that
\* follows enqueues its active character for removal from its map and moves
\* the client to Disconnected with no active character; the cleanup pass
\* after that removes the record; and the states are entered in that order
\* only.
C18_TwoStageCleanup ==
    [][ \A addr \in RealmAddrs :
            /\ (ClientDisconnected(addr) /\ addr \in DOMAIN clients) =>
                   StateIn(clients', addr) = "DisconnectPendingCleanup"
            /\ (CleanupPass /\ StateIn(clients, addr) = "DisconnectPendingCleanup") =>
                   /\ StateIn(clients', addr) = "Disconnected"
                   /\ clients'[addr].active_character = NoGuid
                   /\ RemovalEnqueued(addr)
            /\ (CleanupPass /\ StateIn(clients, addr) = "Disconnected") =>
                   StateIn(clients', addr) = "Removed"
            /\ StateIn(clients', addr) # StateIn(clients, addr) =>
                   /\ StateIn(clients', addr) = "DisconnectPendingCleanup" =>
                          ClientDisconnected(addr)
                   /\ StateIn(clients', addr) = "Disconnected" =>
                          StateIn(clients, addr) = "DisconnectPendingCleanup"
                   /\ StateIn(clients, addr) = "DisconnectPendingCleanup" =>
                          StateIn(clients', addr) = "Disconnected"
                   /\ StateIn(clients, addr) = "Disconnected" =>
                          StateIn(clients', addr) = "Removed" ]_vars

\* C19: within one engine tick the manager first drains the pending client
\* events, then calls client.tick on every client and only then runs the
\* disconnect cleanup: no cleanup pass is followed by the drain of the events
\* in the same tick, and when the manager's part of the tick is over no
\* client is left in DisconnectPendingCleanup.
C19_CleanupClosesTheTick ==
    [][ /\ CleanupPass => pc' # "events"
        /\ (pc = "events" /\ pc' # "events") =>
               \A addr \in DOMAIN clients' :
                   clients'[addr].client_state # "DisconnectPendingCleanup" ]_vars

\* The handler of a packet of addr ran and returned Err.
HandlerReturnsErr(addr) ==
    \/ \E position \in Positions :
           /\ Movement(addr, position)
           /\ handle_movement_generic(World, addr, position).res = "err"
    \/ /\ SetActionbarToggles(addr)
       /\ handle_cmsg_set_actionbar_toggles(World, addr).res = "err"

\* C20: when a packet handler returns an error for the message of one
\* client, the manager goes on with the remaining events and with
\* client.tick in the same engine tick (it is still draining the events
\* after the step), and the offending client is sent a rejection or is
\* disconnected.
C20_HandlerErrorIsCaught ==
    [][ \A addr \in RealmAddrs :
            HandlerReturnsErr(addr) =>
                /\ pc' = "events"
                /\ addr \in DOMAIN clients =>
                       \/ outbox'[addr] # <<>>
                       \/ StateIn(clients', addr) = "DisconnectPendingCleanup" ]_vars

\* The MapManager::tick of the next map returns Err.
MapTickReturnsErr ==
    /\ MapTick
    /\ \E order \in Perms(Guids) :
           /\ tick(World, Head(tick_queue), order).res = "err"
           /\ AfterMapTick(tick(World, Head(tick_queue), order))

\* C21: an error returned by the world tick does not terminate the main loop
\* of the realm: the loop is still running after the step, so that later
\* engine ticks run.
C21_WorldTickErrorKeepsLoopRunning ==
    [][ MapTickReturnsErr => world' = "running" ]_vars

\* The connection that registered the session stored under a is still open.
SessionOpen(a) ==
    /\ a \in DOMAIN connected_clients
    /\ receiver_alive[connected_clients[a].sender]

\* C22: every accepted connection is registered under a key of its own: the
\* Connection event of one connection leaves the session of every connection
\* that is open at the same time in place and unchanged.
C22_ConnectionKeepsOpenSessions ==
    [][ \A addr \in Addrs :
            Connection(addr) =>
                \A a \in Addrs :
                    SessionOpen(a) =>
                        /\ a \in DOMAIN connected_clients'
                        /\ connected_clients'[a] = connected_clients[a] ]_vars

\* The age of a session: now minus created_at.
Age(client) == now - client.created_at

\* C23: after a cleanup tick of the auth manager no session whose age
\* exceeds the reconnect lifetime remains, every remaining entry of the
\* authenticated addresses points to an existing session that is within the
\* lifetime, and the sessions within the lifetime (those whose age does not
\* exceed it) are left unchanged.
C23_CleanerPrunesOnlyExpiredSessions ==
    [][ Tick =>
            /\ \A a \in DOMAIN connected_clients' :
                   ~ (Age(connected_clients'[a]) > AUTH_RECONNECT_LIFETIME)
            /\ \A u \in DOMAIN authenticated_addresses' :
                   /\ authenticated_addresses'[u] \in DOMAIN connected_clients'
                   /\ ~ (Age(connected_clients'[authenticated_addresses'[u]])
                             > AUTH_RECONNECT_LIFETIME)
            /\ \A a \in DOMAIN connected_clients :
                   ~ (Age(connected_clients[a]) > AUTH_RECONNECT_LIFETIME) =>
                       /\ a \in DOMAIN connected_clients'
                       /\ connected_clients'[a] = connected_clients[a] ]_vars

\* The account query of a LogonChallenge for account_name ends in one of the
\* three rejection arms: the account is banned, it has an empty v or s, or
\* it is absent.
Rejected(account_name) ==
    \/ account_name \notin DOMAIN Accounts
    \/ Accounts[account_name].banned
    \/ Accounts[account_name].v = ""
    \/ Accounts[account_name].s = ""

\* The login result the rejection is answered with.
RejectionResult(account_name) ==
    IF account_name \in DOMAIN Accounts /\ Accounts[account_name].banned
    THEN "FailBanned" ELSE "FailUnknownAccount"

\* The step enqueues ev on the mailbox of the session of addr and nothing
\* else on any mailbox.
AnsweredWith(addr, ev) ==
    mailbox' = [mailbox EXCEPT ![connected_clients[addr].sender] = Append(@, ev)]

\* C24: a LogonChallenge for a banned account is answered FailBanned, also
\* when its v or s is empty; for an absent account, or an account that is
\* not banned and has an empty v or s, it is answered FailUnknownAccount; in
\* every one of these cases the session is in state Connected afterwards, it
\* is not disconnected, and the authenticated addresses are unchanged.
C24_RejectedChallengeKeepsSession ==
    [][ \A addr \in Addrs, account_name \in Usernames :
            ( /\ LogonChallenge(addr, account_name, TRUE)
              /\ addr \in DOMAIN connected_clients
              /\ Rejected(account_name) ) =>
                /\ AnsweredWith(addr, Event("AuthLogonChallenge",
                                            RejectionResult(account_name)))
                /\ addr \in DOMAIN connected_clients'
                /\ connected_clients'[addr].state = Connected
                /\ authenticated_addresses' = authenticated_addresses ]_vars

\* The step enqueues the Success reply of a LogonProof on some mailbox.
LogonProofSuccessEnqueued ==
    \E c \in ConnIds :
        /\ Len(mailbox'[c]) > Len(mailbox[c])
        /\ \E i \in (Len(mailbox[c]) + 1)..Len(mailbox'[c]) :
               mailbox'[c][i] = Event("AuthLogonProof", "Success")

\* The state a successful LogonChallenge leaves: ChallengeProof for an
\* account that is not banned and has a verifier and a salt.
ChallengeIssued(state) ==
    /\ state.tag = "ChallengeProof"
    /\ state.username \in DOMAIN Accounts
    /\ ~Accounts[state.username].banned
    /\ Accounts[state.username].v # ""
    /\ Accounts[state.username].s # ""

\* C25: a session is authenticated by a LogonProof only if it was in
\* ChallengeProof, the state its last LogonChallenge left when it succeeded
\* for an account that is not banned and has a verifier; a LogonProof handled
\* in Connected, LogOnProof or ReconnectProof enqueues no Success reply and
\* adds or changes no entry of the authenticated addresses.
C25_LogonProofNeedsChallenge ==
    [][ \A addr \in Addrs, key_ok, proof_ok, db_ok \in BOOLEAN :
            (LogonProof(addr, key_ok, proof_ok, db_ok) /\ addr \in DOMAIN connected_clients) =>
                /\ ( /\ addr \in DOMAIN connected_clients'
                     /\ connected_clients'[addr].state = LogOnProof ) =>
                       ChallengeIssued(connected_clients[addr].state)
                /\ connected_clients[addr].state.tag
                       \in {"Connected", "LogOnProof", "ReconnectProof"} =>
                       /\ ~LogonProofSuccessEnqueued
                       /\ authenticated_addresses' = authenticated_addresses ]_vars

\* One session is authenticated and registered, and the LogonProof of a
\* session that was not in ChallengeProof has been rejected and the session
\* removed.
C25_Witness ==
    \E a \in DOMAIN connected_clients, c \in ConnIds :
        /\ connected_clients[a].state = LogOnProof
        /\ connected_clients[a].authentication.username \in DOMAIN authenticated_addresses
        /\ authenticated_addresses[connected_clients[a].authentication.username] = a
        /\ c # connected_clients[a].sender
        /\ mailbox[c] = <<Event("AuthLogonProof", "FailUnknownAccount"), Disconnect>>

\* The session of addr is authenticated after the step.
AuthenticatedAfter(addr) ==
    /\ addr \in DOMAIN connected_clients'
    /\ connected_clients'[addr].state = LogOnProof

\* C26: on a valid LogonProof the session key is persisted on the account
\* before the Success reply is enqueued and before the session becomes
\* authenticated (whenever the handler got as far as the reply or the
\* authentication, the key of this session is stored on the account); if
\* persisting fails, no Success reply is enqueued, the session does not
\* become authenticated and the authenticated addresses are unchanged.
C26_SessionKeyPersistedFirst ==
    [][ \A addr \in Addrs, db_ok \in BOOLEAN :
            ( /\ LogonProof(addr, TRUE, TRUE, db_ok)
              /\ addr \in DOMAIN connected_clients
              /\ IsChallengeProof(connected_clients[addr].state) ) =>
                /\ (LogonProofSuccessEnqueued \/ AuthenticatedAfter(addr)) =>
                       sessionkey'[connected_clients[addr].state.username]
                           = connected_clients[addr].sender
                /\ ~db_ok =>
                       /\ ~LogonProofSuccessEnqueued
                       /\ ~AuthenticatedAfter(addr)
                       /\ sessionkey' = sessionkey
                       /\ authenticated_addresses' = authenticated_addresses ]_vars

\* A valid LogonProof has been handled: the key of the session is stored on
\* the account, the Success reply is in the mailbox of the session, and the
\* session is authenticated and registered.
C26_Witness ==
    \E a \in DOMAIN connected_clients :
        /\ connected_clients[a].state = LogOnProof
        /\ connected_clients[a].authentication.username \in DOMAIN Accounts
        /\ sessionkey[connected_clients[a].authentication.username]
               = connected_clients[a].sender
        /\ mailbox[connected_clients[a].sender] = <<Event("AuthLogonProof", "Success")>>
        /\ connected_clients[a].authentication.username \in DOMAIN authenticated_addresses

\* The events the step appends to the mailbox of connection c.
Appended(c) ==
    IF Len(mailbox'[c]) > Len(mailbox[c])
    THEN {mailbox'[c][i] : i \in (Len(mailbox[c]) + 1)..Len(mailbox'[c])}
    ELSE {}

\* The step enqueues a realm list on some mailbox.
RealmListEnqueued == \E c \in ConnIds : Event("RealmList", "realms") \in Appended(c)

\* C27: a RealmList request is answered with a realm list only when the
\* session is authenticated (LogOnProof), and the answered request leaves
\* the record of the session, its state and its Authentication, as it was,
\* so that it can be repeated any number of times; in every other state no
\* realm list is enqueued and the session is disconnected: its record is
\* removed and a Disconnect is enqueued for its connection when that is
\* still there to receive it.
C27_RealmListOnlyWhenAuthenticated ==
    [][ \A addr \in Addrs, db_ok \in BOOLEAN :
            (RealmList(addr, db_ok) /\ addr \in DOMAIN connected_clients) =>
                /\ RealmListEnqueued =>
                       /\ connected_clients[addr].state = LogOnProof
                       /\ Appended(connected_clients[addr].sender)
                              = {Event("RealmList", "realms")}
                       /\ connected_clients' = connected_clients
                       /\ authenticated_addresses' = authenticated_addresses
                /\ connected_clients[addr].state # LogOnProof =>
                       /\ ~RealmListEnqueued
                       /\ addr \notin DOMAIN connected_clients'
                       /\ receiver_alive[connected_clients[addr].sender] =>
                              Disconnect \in Appended(connected_clients[addr].sender) ]_vars

\* An authenticated session has been answered with the realm list: the list
\* is in the mailbox of its connection and the session is still
\* authenticated, with its Authentication, and registered.
C27_Witness ==
    \E a \in DOMAIN connected_clients :
        /\ connected_clients[a].state = LogOnProof
        /\ connected_clients[a].authentication # NoAuthentication
        /\ connected_clients[a].authentication.username \in DOMAIN authenticated_addresses
        /\ authenticated_addresses[connected_clients[a].authentication.username] = a
        /\ mailbox[connected_clients[a].sender] = <<Event("RealmList", "realms")>>

\* The session of addr is in ReconnectProof for a username whose entry of the
\* authenticated addresses points to a session that holds an Authentication:
\* the three unwraps of lines 422-427 succeed and the proof is verified.
ReconnectVerifiable(addr) ==
    /\ addr \in DOMAIN connected_clients
    /\ connected_clients[addr].state.tag = "ReconnectProof"
    /\ connected_clients[addr].state.username \in DOMAIN authenticated_addresses
    /\ authenticated_addresses[connected_clients[addr].state.username]
           \in DOMAIN connected_clients
    /\ connected_clients[authenticated_addresses[connected_clients[addr].state.username]]
           .authentication # NoAuthentication

\* C28: on a ReconnectProof that fails verification the reconnecting session
\* receives FailIncorrectPassword and goes to Connected, while the previously
\* authenticated session (as every other session) keeps its Authentication
\* and its state, and the authenticated addresses are unchanged.
C28_FailedReconnectProofKeepsSessions ==
    [][ \A addr \in Addrs :
            (ReconnectProofMsg(addr, FALSE) /\ ReconnectVerifiable(addr)) =>
                /\ AnsweredWith(addr, Event("AuthReconnectProof", "FailIncorrectPassword"))
                /\ connected_clients' =
                       [connected_clients EXCEPT ![addr].state = Connected]
                /\ authenticated_addresses' = authenticated_addresses ]_vars

\* account_name has an authenticated session: its entry of the authenticated
\* addresses points to a session that holds an Authentication.
HasAuthenticatedSession(account_name) ==
    /\ account_name \in DOMAIN authenticated_addresses
    /\ authenticated_addresses[account_name] \in DOMAIN connected_clients
    /\ connected_clients[authenticated_addresses[account_name]].authentication
           # NoAuthentication

\* C29: on a ReconnectChallenge for a username that has an authenticated
\* session the Success reply is enqueued on the mailbox of the reconnecting
\* address and on no other, only the reconnecting session changes, and only
\* in its state, which becomes ReconnectProof for that username, and the
\* previously authenticated session and the authenticated addresses are
\* unchanged.
C29_ReconnectChallengeTouchesOnlyRequester ==
    [][ \A addr \in Addrs, account_name \in Usernames :
            ( /\ ReconnectChallenge(addr, account_name)
              /\ addr \in DOMAIN connected_clients
              /\ HasAuthenticatedSession(account_name) ) =>
                /\ AnsweredWith(addr, Event("AuthReconnectChallenge", "Success"))
                /\ connected_clients' =
                       [connected_clients EXCEPT ![addr].state = ReconnectProof(account_name)]
                /\ authenticated_addresses' = authenticated_addresses ]_vars

\* The client addr has an active character that the character manager
\* holds.
HasCharacter(addr) ==
    /\ addr \in DOMAIN clients
    /\ clients[addr].active_character \in DOMAIN characters

\* The teleport state of the active character of addr.
TeleportStateOf(addr) == characters[clients[addr].active_character].teleportation_state

InExecutingNear(addr) == \E p \in Positions : TeleportStateOf(addr) = Executing(Near(p))
InExecutingFar(addr) ==
    \E m \in MapIds, p \in Positions : TeleportStateOf(addr) = Executing(Far(m, p))

\* The world the handler returns has every character (position, map and
\* teleport state) and every map (with its add and remove queues) as they
\* are, and the handler returns Ok.
AckIgnored(r) == r.chars = characters /\ r.maps = world_maps /\ r.res = "ok"

\* The world the handler returns has the active character of addr at the
\* destination of its near teleport and in state None, and nothing else
\* changed.
NearAckApplied(r, addr) ==
    /\ r.chars = [characters EXCEPT
                      ![clients[addr].active_character].position =
                          TeleportStateOf(addr).dist.position,
                      ![clients[addr].active_character].teleportation_state = TeleportNone]
    /\ r.maps = world_maps
    /\ r.res = "ok"

\* C30: a MSG_MOVE_TELEPORT_ACK changes the character only when its teleport
\* state is Executing(Near): the position becomes the destination and the
\* state None; a MSG_MOVE_WORLDPORT_ACK changes it only when the state is
\* Executing(Far); an ack that arrives in None, in Queued or in the other
\* kind of Executing leaves the position, the map, the teleport state and
\* the queues of the maps unchanged, and its handler returns Ok.  The first
\* conjunct is about what the handlers return wherever the packet can be
\* handled, the second about what the step of the packet does.
C30_AckActsOnlyOnItsOwnExecuting ==
    /\ [](\A addr \in RealmAddrs :
              (PacketReady(addr) /\ HasCharacter(addr)) =>
                  /\ IF InExecutingNear(addr)
                     THEN NearAckApplied(handle_msg_move_teleport_ack(World, addr), addr)
                     ELSE AckIgnored(handle_msg_move_teleport_ack(World, addr))
                  /\ ~InExecutingFar(addr) =>
                         AckIgnored(handle_msg_move_worldport_ack(World, addr)))
    /\ [][ \A addr \in RealmAddrs :
               /\ (TeleportAck(addr) /\ HasCharacter(addr) /\ ~InExecutingNear(addr)) =>
                      characters' = characters /\ world_maps' = world_maps
               /\ (TeleportAck(addr) /\ HasCharacter(addr) /\ InExecutingNear(addr)) =>
                      /\ characters'[clients[addr].active_character].position =
                             TeleportStateOf(addr).dist.position
                      /\ characters'[clients[addr].active_character].teleportation_state =
                             TeleportNone
               /\ (WorldportAck(addr) /\ HasCharacter(addr) /\ ~InExecutingFar(addr)) =>
                      characters' = characters /\ world_maps' = world_maps ]_vars

\* The near teleport has been completed by its ack: the character is at
\* NearPosition, where only a near teleport takes it, on the map it was on,
\* and its teleport state is None.
C30_Witness ==
    \E addr \in DOMAIN clients :
        /\ clients[addr].active_character \in DOMAIN characters
        /\ characters[clients[addr].active_character].position = NearPosition
        /\ characters[clients[addr].active_character].teleportation_state = TeleportNone
        /\ \A id \in DOMAIN world_maps : world_maps[id].add_queue = <<>>
        /\ MapsHolding(world_maps, clients[addr].active_character)
               = {characters[clients[addr].active_character].map}

(***************************************************************************)
(* Claims about movement, the map tick and the robustness of the managers. *)
(***************************************************************************)
\* The world a handler returns has sent nothing to any connection.
NothingSent(r) == \A c \in RealmAddrs : r.out[c] = <<>>

\* The active character of addr is in a teleport: Queued or Executing.
InTeleport(addr) == TeleportStateOf(addr).state \in {"Queued", "Executing"}

\* C31: while the teleport state of a character is Queued or Executing,
\* every movement opcode of its client leaves the character (its movement
\* info and position) unchanged, sends nothing to any observer, and its
\* handler returns Ok.  The first conjunct is about what the handler returns
\* wherever the packet can be handled, the second about what the step of
\* the packet does.
C31_MovementDroppedDuringTeleport ==
    /\ [](\A addr \in RealmAddrs, position \in Positions :
              (PacketReady(addr) /\ HasCharacter(addr) /\ InTeleport(addr)) =>
                  /\ handle_movement_generic(World, addr, position).chars = characters
                  /\ NothingSent(handle_movement_generic(World, addr, position))
                  /\ handle_movement_generic(World, addr, position).res = "ok")
    /\ [][ \A addr \in RealmAddrs, position \in Positions :
               (Movement(addr, position) /\ HasCharacter(addr) /\ InTeleport(addr)) =>
                   /\ characters' = characters
                   /\ \A c \in RealmAddrs : outbox'[c] = <<>>
                   /\ pc' = "events" ]_vars

\* A movement opcode can be handled for a character that is in a teleport
\* and has an observer in its interest set.
C31_Witness ==
    \E addr \in RealmAddrs :
        /\ PacketReady(addr)
        /\ HasCharacter(addr)
        /\ TeleportStateOf(addr).state = "Executing"
        /\ characters[clients[addr].active_character].in_range # {}
        /\ characters[clients[addr].active_character].position = LoginPosition

\* The connections of the characters in the interest set of guid.
ObserverMailboxes(guid) ==
    {characters[o].connection_sender : o \in characters[guid].in_range \cap DOMAIN characters}

\* A movement opcode of addr is accepted: its character is on a map and not
\* in a teleport.
MovementAccepted(addr) ==
    /\ PacketReady(addr)
    /\ HasCharacter(addr)
    /\ TeleportStateOf(addr) = TeleportNone
    /\ characters[clients[addr].active_character].map \in DOMAIN world_maps

\* out holds the movement opcode of guid exactly once for every mailbox of
\* an observer of guid, and nothing for any other connection, the sender's
\* included.
FannedOut(out, guid) ==
    \A c \in RealmAddrs :
        out[c] = IF c \in ObserverMailboxes(guid) THEN <<MovementEvent(guid)>> ELSE <<>>

\* C32: for a movement opcode accepted from a character that is on a map
\* with teleport state None, the same opcode is enqueued exactly once on the
\* mailbox of every character in the sender's interest set and is not echoed
\* to the sender.
C32_MovementFannedOutOnce ==
    /\ [](\A addr \in RealmAddrs, position \in Positions :
              MovementAccepted(addr) =>
                  FannedOut(handle_movement_generic(World, addr, position).out,
                            clients[addr].active_character))
    /\ [][ \A addr \in RealmAddrs, position \in Positions :
               (Movement(addr, position) /\ MovementAccepted(addr)) =>
                   FannedOut(outbox', clients[addr].active_character) ]_vars

\* The ids of a queue.
Ids(queue) == {queue[i] : i \in 1..Len(queue)}

\* The map that is ticked by a MapTick step, its remove queue and its
\* characters before the step.
TickedMap == Head(tick_queue)
RemoveQueued == Ids(world_maps[TickedMap].remove_queue)
OnMapBefore == world_maps[TickedMap].characters_on_map

\* The step sends destroy-object(g) to the character x.
DestroySent(x, g) == InSeq(DestroyObject(g), outbox'[characters[x].connection_sender])

\* C33: after a map tick that drains a remove queue containing an id g that
\* was on the map, g is not in characters_on_map, every character still on
\* the map that had g in its interest set has been sent destroy-object(g)
\* and no longer lists g, and the interest set of g is empty; an id in the
\* queue that is not on the map is skipped without any effect.
C33_RemoveQueueDrained ==
    /\ [][ MapTickDone =>
               \A g \in RemoveQueued \cap OnMapBefore :
                   /\ g \notin OnMapAfter(TickedMap)
                   /\ \A x \in OnMapAfter(TickedMap) :
                          (x \in DOMAIN characters /\ g \in characters[x].in_range) =>
                              /\ DestroySent(x, g)
                              /\ g \notin characters'[x].in_range
                   /\ g \in DOMAIN characters' => characters'[g].in_range = {} ]_vars
    /\ [](\A id \in DOMAIN world_maps, g \in Guids :
              g \notin world_maps[id].characters_on_map =>
                  remove_object_by_guid_internal(World, id, g) = World)


\* The ids held in the spatial index of a map.
TreeIds(map) == {item.guid : item \in map.characters_query_tree}

\* C34: after every map tick, including ticks that process additions and
\* removals, the set of ids held in the spatial index of the ticked map
\* equals its characters_on_map.
C34_TreeMatchesCharactersOnMap ==
    [][ MapTickDone =>
            (TickedMap \in DOMAIN world_maps' =>
                 TreeIds(world_maps'[TickedMap]) =
                     world_maps'[TickedMap].characters_on_map) ]_vars

\* A tick has removed g from a map on which x stays: the index holds x only.
C34_Witness ==
    /\ world = "running"
    /\ \E id \in DOMAIN world_maps, x \in Guids, g \in Guids :
           /\ x # g
           /\ world_maps[id].characters_on_map = {x}
           /\ TreeIds(world_maps[id]) = {x}
           /\ world_maps[id].add_queue = <<>>
           /\ world_maps[id].remove_queue = <<>>
           /\ g \in DOMAIN characters /\ x \in DOMAIN characters
           /\ g \in characters[x].recently_removed \/ InSeq(DestroyObject(g), outbox[characters[x].connection_sender])


(***************************************************************************)
(* Claims about the robustness of the auth manager.                        *)
(***************************************************************************)
\* The connection task of the session addr has exited: the Receiver of its
\* mailbox is gone while the manager still holds the Sender.
ActorGone(addr) ==
    /\ addr \in DOMAIN connected_clients
    /\ ~receiver_alive[connected_clients[addr].sender]

\* C35: if the actor of an earlier session p1 of username u has already exited
\* while the manager still holds its sender, a later successful LogonProof for
\* u by another connection p2 leaves p2 Authenticated, registered in
\* authenticated_addresses and not disconnected: the Disconnect addressed to
\* p1 is simply dropped.
C35_SendToExitedActorIsDropped ==
    [][\A p1, p2 \in Addrs, u \in Usernames :
          ( /\ p1 # p2
            /\ HoldsSession(p1, u)
            /\ ActorGone(p1)
            /\ LiveSession(p2)
            /\ connected_clients[p2].state = ChallengeProof(u)
            /\ LogonProof(p2, TRUE, TRUE, TRUE) )
          => /\ manager' = "running"
             /\ p2 \in DOMAIN connected_clients'
             /\ connected_clients'[p2].state = LogOnProof
             /\ u \in DOMAIN authenticated_addresses'
             /\ authenticated_addresses'[u] = p2
             /\ ~InSeq(Disconnect, mailbox'[connected_clients[p2].sender])
      ]_vars


\* The manager handles a Message of addr.
MessageHandled(addr) ==
    \/ \E u \in Usernames, db_ok \in BOOLEAN : LogonChallenge(addr, u, db_ok)
    \/ \E key_ok, proof_ok, db_ok \in BOOLEAN : LogonProof(addr, key_ok, proof_ok, db_ok)
    \/ \E u \in Usernames : ReconnectChallenge(addr, u)
    \/ \E verify_ok \in BOOLEAN : ReconnectProofMsg(addr, verify_ok)
    \/ \E db_ok \in BOOLEAN : RealmList(addr, db_ok)

\* C36: for every interleaving of Connection and Message events with cleanup
\* ticks, duplicate-login displacement and error removals, the manager task
\* keeps running; a Message from an address whose session record has already
\* been removed is rejected or ignored without aborting the manager.
C36_ManagerKeepsRunning ==
    /\ [](manager = "running")
    /\ [][\A addr \in Addrs :
              (addr \notin DOMAIN connected_clients /\ MessageHandled(addr))
                  => manager' = "running"]_vars


\* The replies to a ReconnectProof that went through the verification.
ReconnectProofReplies ==
    {Event("AuthReconnectProof", "Success"),
     Event("AuthReconnectProof", "FailIncorrectPassword")}

\* C38: a ReconnectProof from a session in ReconnectProof{u} whose connection
\* task is running is always answered with Success or FailIncorrectPassword
\* and the manager keeps running, whatever happened between the session's
\* ReconnectChallenge and its ReconnectProof (another connection completing a
\* reconnect or a LogonProof for u, the authenticated session being removed,
\* a cleanup tick pruning the entry of u).
C38_ReconnectProofAlwaysAnswered ==
    [][\A addr \in Addrs, u \in Usernames, verify_ok \in BOOLEAN :
          ( /\ LiveSession(addr)
            /\ connected_clients[addr].state = ReconnectProof(u)
            /\ ReconnectProofMsg(addr, verify_ok) )
          => /\ manager' = "running"
             /\ \E reply \in ReconnectProofReplies :
                    mailbox'[connected_clients[addr].sender] =
                        Append(mailbox[connected_clients[addr].sender], reply)
      ]_vars


(***************************************************************************)
(* Claims about the order of the object updates of a map tick.             *)
(***************************************************************************)
\* What a sequence of ServerEvents tells its receiver about objects, in the
\* order of arrival: a destroy-object names its guid, an update-object
\* packet carries its blocks in the order in which they were pushed.
RECURSIVE ObjectStream(_)
ObjectStream(events) ==
    IF events = <<>> THEN <<>>
    ELSE IF Head(events).ev = "DestroyObject"
    THEN <<Block("destroy", Head(events).guid, {})>> \o ObjectStream(Tail(events))
    ELSE IF Head(events).ev = "UpdateObject"
    THEN Head(events).objects \o ObjectStream(Tail(events))
    ELSE ObjectStream(Tail(events))

\* The positions before j at which the stream carries a block of that kind
\* about t.
Earlier(stream, j, kind, t) ==
    {i \in 1..(j - 1) : stream[i].kind = kind /\ stream[i].guid = t}

\* The values-update at position j of the stream of observer o is in order:
\* a create block for its target came before it, in this stream or (the
\* target is in the interest set of o when the tick starts) before this
\* tick, and no destroy-object for the target came after that create block.
ValuesInOrder(stream, j, o) ==
    IF Earlier(stream, j, "destroy", stream[j].guid) = {}
    THEN \/ stream[j].guid \in characters[o].in_range
         \/ Earlier(stream, j, "create", stream[j].guid) # {}
    ELSE \E k \in Earlier(stream, j, "create", stream[j].guid) :
             \A i \in Earlier(stream, j, "destroy", stream[j].guid) : i < k

RemovedAndAdded ==
    RemoveQueued \cap Ids(world_maps[TickedMap].add_queue) \cap OnMapBefore

\* In the stream no create block of g comes before the first destroy-object
\* of g, and there is a destroy-object of g.
DestroyBeforeCreate(stream, g) ==
    \E i \in 1..Len(stream) :
        /\ stream[i].kind = "destroy" /\ stream[i].guid = g
        /\ Earlier(stream, i, "create", g) = {}

\* C40: within one map tick the remove queue is drained before the add
\* queue, so a character id that was enqueued both for removal from and for
\* addition to the same map since the previous tick is on that map after the
\* tick, and its former observers have received destroy-object before any
\* new create block for it.
C40_RemoveThenAddInOneTick ==
    [][ MapTickDone =>
            \A g \in RemovedAndAdded :
                /\ g \in OnMapAfter(TickedMap)
                /\ \A x \in OnMapBefore \ {g} :
                       (x \in DOMAIN characters /\ g \in characters[x].in_range) =>
                           DestroyBeforeCreate(
                               ObjectStream(outbox'[characters[x].connection_sender]), g)
      ]_vars


(***************************************************************************)
(* Claims about the cleanup of disconnected realm clients.                 *)
(***************************************************************************)
\* The manager has processed Disconnected{addr}.
DisconnectProcessed(addr) ==
    /\ addr \in DOMAIN clients
    /\ clients[addr].client_state = "DisconnectPendingCleanup"

\* The character guid is the active character of the disconnected client
\* addr and is on its map.
DisconnectedWith(addr, guid) ==
    /\ DisconnectProcessed(addr)
    /\ clients[addr].active_character = guid
    /\ guid \in DOMAIN characters
    /\ characters[guid].map \in DOMAIN world_maps
    /\ guid \in world_maps[characters[guid].map].characters_on_map

\* The character guid is enqueued for removal from its map, or already off it.
EnqueuedForRemoval(guid) ==
    \/ guid \notin DOMAIN characters
    \/ characters[guid].map \notin DOMAIN world_maps
    \/ guid \notin world_maps[characters[guid].map].characters_on_map
    \/ InSeq(guid, world_maps[characters[guid].map].remove_queue)

\* C39: every realm client for which the manager has processed
\* Disconnected{addr} is eventually removed from the client map and its
\* active character is enqueued for removal from its map (as long as the
\* main loop runs), even if the logout of that character completes in a
\* client.tick that runs while the client is in DisconnectPendingCleanup.
C39_DisconnectedClientIsCleanedUp ==
    /\ \A addr \in RealmAddrs :
           DisconnectProcessed(addr) ~> (addr \notin DOMAIN clients \/ world # "running")
    /\ \A addr \in RealmAddrs, guid \in Guids :
           DisconnectedWith(addr, guid) ~> (EnqueuedForRemoval(guid) \/ world # "running")
====
